---- MODULE Spec2Model ----
(***************************************************************************)
(* Model of the internal-linking core of seo-agent-api:                    *)
(*   src/src/site_architect.py     SiteArchitect (normalize_url,           *)
(*                                 classify_page, _is_excluded)            *)
(*   src/src/anchor_validator.py   AnchorValidator, AnchorRotator          *)
(*   src/src/opportunity_engine.py OpportunityEngine                       *)
(*   src/src/engine.py             SEOEngine.run                           *)
(*                                                                         *)
(* Strings are sequences of symbols.  A symbol stands for one character or *)
(* for a run of characters that the code never splits ("https://site.com", *)
(* a path segment, a word); the string operations of the code (lower,      *)
(* startswith, rstrip, strip, in, slicing, len) are computed on these      *)
(* sequences.  Python dicts are functions: `d.get(k, default)` is Get.     *)
(* Scores are kept in thousandths (0.5 is 500).                            *)
(***************************************************************************)
EXTENDS Integers, Sequences, FiniteSets, TLC

VARIABLES
    config,            \* the configuration mapping handed to every constructor
    url_index,         \* SiteArchitect.url_index
    rotation_memory,   \* AnchorValidator.rotation_memory
    recorded,          \* history: every anchor given to record_anchor_use, in order
    ret,               \* the last completed call: its name, arguments and result
    pages_data,        \* SEOEngine.run: the crawl result being analysed
    page_idx,          \* SEOEngine.run: number of pages of the loop already handled
    site_links,        \* SEOEngine.run: site_links, url -> existing links
    all_suggestions,   \* SEOEngine.run: all_suggestions
    all_permits,       \* SEOEngine.run: all_permits
    all_architecture,  \* SEOEngine.run: all_architecture
    pc,                \* "idle": ready for a call; "run": inside the loop of
                       \* SEOEngine.run; "returned": ret holds the result of the
                       \* call that just returned
    http_log,          \* the requests handed to the requests library, in order
    storage,           \* SimpleCache._storage
    now,               \* time.time(), in seconds
    last_set,          \* history: key -> time, ttl and data of the latest set
                       \* that no invalidate or clear followed
    usage_counts,      \* AnchorRotator.usage_counts
    rounds             \* history: category -> number of completed rounds of
                       \* get_next_anchor followed by record_usage

vars == <<config, url_index, rotation_memory, recorded, ret, pages_data, page_idx,
          site_links, all_suggestions, all_permits, all_architecture, pc,
          http_log, storage, now, last_set, usage_counts, rounds>>

\* the state of the collaborators of the core: WordPress clients, the cache
\* and the anchor rotator
IoVars == <<http_log, storage, now, last_set, usage_counts, rounds>>

(***************************************************************************)
(* Bounds of the model.                                                    *)
(***************************************************************************)
MaxPathLen == 3        \* symbols in the path part of a URL given to normalize_url
MaxRecorded == 3       \* calls of record_anchor_use in one behaviour
MaxMemorySize == 2     \* largest configured anchor_rules.rotation_memory
MaxPages == 2          \* pages in one crawl result

(***************************************************************************)
(* Python built-ins on sequences and dicts.                                *)
(***************************************************************************)
\* None.  What the code only tests for truth (None, '', []) is written <<>>;
\* an optional record is <<>> or <<record>>
None == <<>>

\* d.get(k, default)
Get(d, k, default) == IF k \in DOMAIN d THEN d[k] ELSE default

Range(s) == {s[i] : i \in 1..Len(s)}

\* str.lower(), symbol by symbol
LowerSym(c) ==
    CASE c = "Foo" -> "foo"
      [] c = "Blog" -> "blog"
      [] c = "Driveways-Miami" -> "driveways-miami"
      [] c = "Driveway" -> "driveway"
      [] c = "Miami" -> "miami"
      [] c = "Beach" -> "beach"
      [] c = "Paver" -> "paver"
      [] c = "Patios" -> "patios"
      [] c = "Pavers" -> "pavers"
      [] c = "Private" -> "private"
      [] c = "Coral" -> "coral"
      [] c = "Gables" -> "gables"
      [] c = "Shop" -> "shop"
      [] c = "Travertine" -> "travertine"
      [] OTHER -> c

Lower(s) == [i \in 1..Len(s) |-> LowerSym(s[i])]

\* s.startswith(p)
StartsWith(s, p) == Len(p) <= Len(s) /\ SubSeq(s, 1, Len(p)) = p

\* s.rstrip(c)
RECURSIVE RStrip(_, _)
RStrip(s, c) ==
    IF s # <<>> /\ s[Len(s)] = c THEN RStrip(SubSeq(s, 1, Len(s) - 1), c) ELSE s

\* s.strip(): the blank is the only whitespace symbol
RECURSIVE LStripBlank(_)
LStripBlank(s) == IF s # <<>> /\ Head(s) = " " THEN LStripBlank(Tail(s)) ELSE s

Strip(s) == LStripBlank(RStrip(s, " "))

\* p in s  (substring test)
Contains(s, p) == \E i \in 0..(Len(s) - Len(p)) : SubSeq(s, i + 1, i + Len(p)) = p

\* s[:n], also for a negative n
SliceTo(s, n) ==
    IF n >= 0 THEN SubSeq(s, 1, IF n < Len(s) THEN n ELSE Len(s))
    ELSE SubSeq(s, 1, Len(s) + n)

\* all sequences over S of length at most n
SeqsUpTo(S, n) == UNION {[1..k -> S] : k \in 0..n}

(***************************************************************************)
(* URLs.  "https://site.com" is scheme and host, "/" the separator, a      *)
(* symbol starting with "?" a query string; everything else is path text.  *)
(***************************************************************************)
Origin == "https://site.com"
Slash == "/"
QuerySyms == {"?utm_source=x", "?page=2"}

\* index of the first query symbol, or Len(s) + 1
RECURSIVE QueryStart(_, _)
QueryStart(s, i) ==
    IF i > Len(s) \/ s[i] \in QuerySyms THEN i ELSE QueryStart(s, i + 1)

\* index of the first "/" at or after i, or Len(s) + 1
RECURSIVE PathStart(_, _)
PathStart(s, i) ==
    IF i > Len(s) \/ s[i] = Slash THEN i ELSE PathStart(s, i + 1)

\* urlparse(url).path: after scheme and host (the host runs up to the first
\* "/" or "?"), what comes before the query string
UrlPath(url) ==
    LET end == QueryStart(url, 1) - 1
    IN  IF url # <<>> /\ Head(url) = Origin
        THEN SubSeq(url, PathStart(url, 2), end)
        ELSE SubSeq(url, 1, end)

\* SiteArchitect.__init__: self.site_url
SiteUrl == RStrip(config["site"]["url"], Slash)

\* a normalize_url that keeps the trailing slashes of the path
normalize_url_keep_slashes(url) ==
    LET full == IF StartsWith(url, <<Slash>>) THEN SiteUrl \o url ELSE url
    IN  Lower(UrlPath(full)) \o <<Slash>>

\* SiteArchitect.normalize_url.  The query string is rebuilt by the code and
\* then dropped: only the cleaned path is returned.
normalize_url(url) ==
    LET full == IF StartsWith(url, <<Slash>>) THEN SiteUrl \o url ELSE url
        clean_path == RStrip(Lower(UrlPath(full)), Slash) \o <<Slash>>
    IN  IF clean_path = <<Slash, Slash>> THEN <<Slash>> ELSE clean_path

(***************************************************************************)
(* SiteArchitect: the URL index and the page classifier.                   *)
(***************************************************************************)
EmptyDict == <<>>

\* d[k] = v on a dict
DictPut(d, k, v) == [x \in (DOMAIN d) \cup {k} |-> IF x = k THEN v ELSE d[x]]

\* the loop "for key, data in service_hubs.items()" of _build_url_index
RECURSIVE IndexServiceHubs(_, _)
IndexServiceHubs(idx, hubs) ==
    IF hubs = <<>> THEN idx
    ELSE LET key == Head(hubs).key
             data == Head(hubs).data
         IN  IndexServiceHubs(
                 DictPut(idx, normalize_url(data["url"]),
                         [type |-> "money_page", subtype |-> key,
                          priority |-> Get(data, "priority", 2),
                          keywords |-> Get(data, "keywords", <<>>),
                          title |-> Get(data, "title", <<>>)]),
                 Tail(hubs))

\* the branch "if 'permit_hub' in authority" of _build_url_index
IndexPermitHub(idx, authority) ==
    IF "permit_hub" \in DOMAIN authority
    THEN LET hub == authority["permit_hub"]
         IN  DictPut(idx, normalize_url(hub["url"]),
                     [type |-> "hub", subtype |-> "permit_hub",
                      priority |-> Get(hub, "priority", 1),
                      is_central_hub |-> Get(hub, "is_central_hub", TRUE),
                      title |-> Get(hub, "title", <<>>)])
    ELSE idx

\* the loop "for permit in authority.get('permit_pages', [])"
RECURSIVE IndexPermitPages(_, _)
IndexPermitPages(idx, permits) ==
    IF permits = <<>> THEN idx
    ELSE LET permit == Head(permits)
         IN  IndexPermitPages(
                 DictPut(idx, normalize_url(permit["url"]),
                         [type |-> "permit_page",
                          subtype |-> Get(permit, "city", "unknown"),
                          geo_terms |-> Get(permit, "geo_terms", <<>>),
                          priority |-> 3]),
                 Tail(permits))

\* the loop "for material in kg.get('materials', [])"
RECURSIVE IndexMaterials(_, _)
IndexMaterials(idx, materials) ==
    IF materials = <<>> THEN idx
    ELSE LET material == Head(materials)
         IN  IndexMaterials(
                 DictPut(idx, normalize_url(material["url"]),
                         [type |-> "material",
                          subtype |-> Get(material, "name", <<>>),
                          priority |-> 2]),
                 Tail(materials))

\* SiteArchitect._build_url_index: later entries overwrite earlier ones
build_url_index ==
    LET kg == Get(config, "knowledge_graph", EmptyDict)
        authority == Get(kg, "authority_hubs", EmptyDict)
        i1 == IndexServiceHubs(EmptyDict, Get(kg, "service_hubs", <<>>))
        i2 == IndexPermitHub(i1, authority)
        i3 == IndexPermitPages(i2, Get(authority, "permit_pages", <<>>))
    IN  IndexMaterials(i3, Get(kg, "materials", <<>>))

\* fnmatch.fnmatch(name, pat) for patterns made of literal text and "*"
RECURSIVE fnmatch(_, _)
fnmatch(name, pat) ==
    IF pat = <<>> THEN name = <<>>
    ELSE IF Head(pat) = "*"
         THEN fnmatch(name, Tail(pat)) \/ (name # <<>> /\ fnmatch(Tail(name), pat))
         ELSE name # <<>> /\ Head(name) = Head(pat) /\ fnmatch(Tail(name), Tail(pat))

\* an _is_excluded that checks the exact URLs only
is_excluded_urls_only(url) ==
    LET exclusions == Get(config, "exclusions", EmptyDict)
        urls == Get(exclusions, "urls", <<>>)
    IN  \E i \in 1..Len(urls) : normalize_url(urls[i]) = url

\* SiteArchitect._is_excluded
is_excluded(url) ==
    LET exclusions == Get(config, "exclusions", EmptyDict)
        urls == Get(exclusions, "urls", <<>>)
        patterns == Get(exclusions, "patterns", <<>>)
    IN  \/ \E i \in 1..Len(urls) : normalize_url(urls[i]) = url
        \/ \E i \in 1..Len(patterns) : fnmatch(url, patterns[i])

\* "/" followed by text that begins with one of the given words:
\* '/project' in normalized, '/contact' in normalized, '/about' in normalized
ProjectText == {"project", "projects"}
ContactText == {"contact"}
AboutText == {"about"}

ContainsSlashText(s, texts) ==
    \E i \in 1..(Len(s) - 1) : s[i] = Slash /\ s[i + 1] \in texts

\* a classify_page that tries the blog pattern before the exclusion rules
classify_page_blog_first(url) ==
    LET normalized == normalize_url(url)
    IN  IF normalized \in DOMAIN url_index
        THEN <<url_index[normalized].type, url_index[normalized].subtype,
               url_index[normalized]>>
        ELSE IF Contains(normalized, <<Slash, "blog", Slash>>)
                \/ Contains(normalized, <<Slash, "guide", Slash>>)
        THEN <<"blog", None, EmptyDict>>
        ELSE IF is_excluded(normalized) THEN <<"excluded", None, EmptyDict>>
        ELSE IF ContainsSlashText(normalized, ProjectText)
                \/ Contains(normalized, <<Slash, "portfolio", Slash>>)
        THEN <<"project", None, EmptyDict>>
        ELSE IF ContainsSlashText(normalized, ContactText)
                \/ ContainsSlashText(normalized, AboutText)
        THEN <<"utility", None, EmptyDict>>
        ELSE <<"unknown", None, EmptyDict>>

\* SiteArchitect.classify_page: <<page_type, subtype, metadata>>
classify_page(url) ==
    LET normalized == normalize_url(url)
    IN  IF normalized \in DOMAIN url_index
        THEN <<url_index[normalized].type, url_index[normalized].subtype,
               url_index[normalized]>>
        ELSE IF is_excluded(normalized) THEN <<"excluded", None, EmptyDict>>
        ELSE IF Contains(normalized, <<Slash, "blog", Slash>>)
                \/ Contains(normalized, <<Slash, "guide", Slash>>)
        THEN <<"blog", None, EmptyDict>>
        ELSE IF ContainsSlashText(normalized, ProjectText)
                \/ Contains(normalized, <<Slash, "portfolio", Slash>>)
        THEN <<"project", None, EmptyDict>>
        ELSE IF ContainsSlashText(normalized, ContactText)
                \/ ContainsSlashText(normalized, AboutText)
        THEN <<"utility", None, EmptyDict>>
        ELSE <<"unknown", None, EmptyDict>>

\* SiteArchitect.is_permit_page
is_permit_page(url) == classify_page(url)[1] = "permit_page"

(***************************************************************************)
(* AnchorValidator.                                                        *)
(***************************************************************************)
\* difflib.SequenceMatcher.find_longest_match on whole strings: the longest
\* common block, the earliest in a and then the earliest in b among the longest
MatchingBlocks(a, b) ==
    {t \in (1..Len(a)) \X (1..Len(b)) \X (1..Len(a)) :
        /\ t[1] + t[3] - 1 <= Len(a)
        /\ t[2] + t[3] - 1 <= Len(b)
        /\ SubSeq(a, t[1], t[1] + t[3] - 1) = SubSeq(b, t[2], t[2] + t[3] - 1)}

LongestMatch(a, b) ==
    CHOOSE t \in MatchingBlocks(a, b) :
        \A u \in MatchingBlocks(a, b) :
            \/ t[3] > u[3]
            \/ t[3] = u[3] /\ t[1] < u[1]
            \/ t[3] = u[3] /\ t[1] = u[1] /\ t[2] <= u[2]

\* the number of matched symbols: sum of the sizes of get_matching_blocks()
RECURSIVE MatchCount(_, _)
MatchCount(a, b) ==
    IF MatchingBlocks(a, b) = {} THEN 0
    ELSE LET t == LongestMatch(a, b)
         IN  t[3]
             + MatchCount(SubSeq(a, 1, t[1] - 1), SubSeq(b, 1, t[2] - 1))
             + MatchCount(SubSeq(a, t[1] + t[3], Len(a)), SubSeq(b, t[2] + t[3], Len(b)))

\* AnchorValidator._calculate_similarity: SequenceMatcher(None, s1, s2).ratio(),
\* 2*M/T as the fraction num/den (1.0 when both strings are empty)
calculate_similarity(str1, str2) ==
    IF Len(str1) + Len(str2) = 0 THEN [num |-> 1, den |-> 1]
    ELSE [num |-> 2 * MatchCount(str1, str2), den |-> Len(str1) + Len(str2)]

\* ratio > pct/100
RatioGt(r, pct) == r.num * 100 > pct * r.den

AnchorRules == Get(config, "anchor_rules", EmptyDict)

\* AnchorValidator.__init__: self.memory_size
MemorySize == Get(AnchorRules, "rotation_memory", 3)

\* "if anchor in self.rotation_memory" of is_safe_anchor
InRotationMemory(anchor) == anchor \in Range(rotation_memory)

\* a length check that lets an anchor one longer than the maximum through
TooLongOffByOne(anchor, max_len) == Len(anchor) > max_len + 1

\* is_safe_anchor: len(anchor) > max_len
TooLong(anchor, max_len) == Len(anchor) > max_len

\* AnchorValidator.is_safe_anchor: <<is_safe, reason>>
is_safe_anchor(anchor_text, target_title, target_primary_keyword, existing_anchors_on_page) ==
    LET anchor == Strip(Lower(anchor_text))
        min_len == Get(AnchorRules, "min_anchor_length", 10)
        max_len == Get(AnchorRules, "max_anchor_length", 50)
        threshold == Get(AnchorRules, "similarity_threshold", 85)
    IN  IF Len(anchor) < min_len THEN <<FALSE, "Anchor too short">>
        ELSE IF TooLong(anchor, max_len) THEN <<FALSE, "Anchor too long">>
        ELSE IF /\ Get(AnchorRules, "no_exact_match_target_title", TRUE)
                /\ RatioGt(calculate_similarity(anchor, Lower(target_title)), threshold)
        THEN <<FALSE, "Too similar to target title">>
        ELSE IF /\ Get(AnchorRules, "no_exact_match_primary_keyword", TRUE)
                /\ RatioGt(calculate_similarity(anchor, Lower(target_primary_keyword)),
                           threshold)
        THEN <<FALSE, "Too similar to primary keyword">>
        ELSE IF InRotationMemory(anchor)
        THEN <<FALSE, "Anchor used recently">>
        ELSE IF \E i \in 1..Len(existing_anchors_on_page) :
                    RatioGt(calculate_similarity(anchor,
                                                 Lower(existing_anchors_on_page[i])), 90)
        THEN <<FALSE, "Similar anchor already on this page">>
        ELSE <<TRUE, "Safe">>

\* AnchorValidator.get_best_anchor: the first anchor of the pool that is safe,
\* as <<anchor, reason>>, or None
RECURSIVE get_best_anchor(_, _, _, _)
get_best_anchor(anchor_pool, target_title, target_primary_keyword, existing_anchors_on_page) ==
    IF anchor_pool = <<>> THEN None
    ELSE IF is_safe_anchor(Head(anchor_pool), target_title, target_primary_keyword,
                           existing_anchors_on_page)[1]
    THEN <<Head(anchor_pool), "Selected from pool">>
    ELSE get_best_anchor(Tail(anchor_pool), target_title, target_primary_keyword,
                         existing_anchors_on_page)

\* a record_anchor_use that never evicts
record_anchor_use_no_evict(memory, anchor_text) ==
    Append(memory, Strip(Lower(anchor_text)))

\* a record_anchor_use that evicts the newest entry instead of the oldest
record_anchor_use_evict_newest(memory, anchor_text) ==
    LET appended == Append(memory, Strip(Lower(anchor_text)))
    IN  IF Len(appended) > MemorySize
        THEN SubSeq(appended, 1, Len(appended) - 1)
        ELSE appended

\* AnchorValidator.record_anchor_use: the new rotation_memory
record_anchor_use(memory, anchor_text) ==
    LET appended == Append(memory, Strip(Lower(anchor_text)))
    IN  IF Len(appended) > MemorySize THEN Tail(appended) ELSE appended

(***************************************************************************)
(* AnchorRotator.  usage_counts maps a category to a dict from anchor to   *)
(* count; a dict keeps its keys in insertion order, so it is a sequence of *)
(* [anchor, count] entries.                                                *)
(***************************************************************************)
RECURSIVE ZeroCounts(_, _)
\* {a: 0 for a in anchors}: one key per distinct anchor, in the order of the
\* first occurrence
ZeroCounts(anchors, acc) ==
    IF anchors = <<>> THEN acc
    ELSE ZeroCounts(Tail(anchors),
                    IF \E i \in 1..Len(acc) : acc[i].anchor = Head(anchors)
                    THEN acc
                    ELSE Append(acc, [anchor |-> Head(anchors), count |-> 0]))

\* AnchorRotator.__init__: the usage counts
AnchorRotatorInit(anchor_pools) ==
    [category \in DOMAIN anchor_pools |-> ZeroCounts(anchor_pools[category], <<>>)]

\* min(self.usage_counts[category].values()), of a dict that is not empty
MinCount(entries) ==
    CHOOSE m \in {entries[i].count : i \in 1..Len(entries)} :
        \A i \in 1..Len(entries) : m <= entries[i].count

\* a get_next_anchor that returns the first anchor of the category
get_first_anchor(counts, category) ==
    IF category \notin DOMAIN counts THEN [raised |-> "", result |-> None]
    ELSE IF counts[category] = <<>> THEN [raised |-> "ValueError", result |-> None]
    ELSE [raised |-> "", result |-> <<counts[category][1].anchor>>]

\* AnchorRotator.get_next_anchor: the exception raised or "", and <<anchor>>
\* or None; min() of an empty sequence raises ValueError
get_next_anchor(counts, category) ==
    IF category \notin DOMAIN counts THEN [raised |-> "", result |-> None]
    ELSE IF counts[category] = <<>> THEN [raised |-> "ValueError", result |-> None]
    ELSE LET entries == counts[category]
             min_count == MinCount(entries)
             first == CHOOSE i \in 1..Len(entries) :
                          /\ entries[i].count = min_count
                          /\ \A j \in 1..(i - 1) : entries[j].count # min_count
         IN  [raised |-> "", result |-> <<entries[first].anchor>>]

\* a record_usage that counts a use for every anchor of the category
record_usage_all(counts, category, anchor) ==
    IF /\ category \in DOMAIN counts
       /\ \E i \in 1..Len(counts[category]) : counts[category][i].anchor = anchor
    THEN [counts EXCEPT ![category] =
              [i \in 1..Len(counts[category]) |->
                  [anchor |-> counts[category][i].anchor,
                   count |-> counts[category][i].count + 1]]]
    ELSE counts

\* AnchorRotator.record_usage: the usage counts after the call
record_usage(counts, category, anchor) ==
    IF /\ category \in DOMAIN counts
       /\ \E i \in 1..Len(counts[category]) : counts[category][i].anchor = anchor
    THEN [counts EXCEPT ![category] =
              [i \in 1..Len(counts[category]) |->
                  IF counts[category][i].anchor = anchor
                  THEN [anchor |-> anchor, count |-> counts[category][i].count + 1]
                  ELSE counts[category][i]]]
    ELSE counts

\* no request sent, SimpleCache.__init__, the clock at 0,
\* AnchorRotator(config.get('anchor_pools', {})), no round played
IoInit ==
    /\ http_log = <<>>
    /\ storage = <<>>
    /\ now = 0
    /\ last_set = <<>>
    /\ usage_counts = AnchorRotatorInit(Get(config, "anchor_pools", EmptyDict))
    /\ rounds = [category \in DOMAIN usage_counts |-> 0]

(***************************************************************************)
(* OpportunityEngine.  A LinkOpportunity is a record; its two context      *)
(* strings (slices of the content around the match) are left out.          *)
(***************************************************************************)
KnowledgeGraph == Get(config, "knowledge_graph", EmptyDict)
AnchorPools == Get(config, "anchor_pools", EmptyDict)
PermitRules == Get(config, "permit_rules", EmptyDict)
Limits == Get(config, "limits", EmptyDict)

\* OpportunityEngine.__init__
Weights == Get(Get(config, "scoring", EmptyDict), "weights",
               [topical_relevance |-> 300, page_authority |-> 200, content_age |-> 150,
                existing_link_count |-> 150, campaign_alignment |-> 200])
MinScore == Get(Get(Get(config, "scoring", EmptyDict), "thresholds", EmptyDict),
                "min_score_to_suggest", 600)
Campaigns == Get(config, "active_campaigns", EmptyDict)
PrimaryCampaign == Get(Campaigns, "primary", <<>>)
SecondaryCampaign == Get(Campaigns, "secondary", <<>>)
BoostMultiplier == Get(Campaigns, "boost_multiplier", 1500)

\* [normalize_url(l) for l in existing_links]
NormalizedLinks(existing_links) == {normalize_url(existing_links[i]) : i \in 1..Len(existing_links)}

\* OpportunityEngine._find_keyword_in_content: the positions (from 0) of every
\* occurrence of the keyword, case-insensitively, in increasing order
find_keyword_in_content(content, keyword) ==
    {i \in 0..(Len(content) - Len(keyword)) :
        SubSeq(Lower(content), i + 1, i + Len(keyword)) = Lower(keyword)}

Min(S) == CHOOSE x \in S : \A y \in S : x <= y

\* an anchor test that takes every anchor to be in the content
AnchorAssumedInContent(anchor, content_text) == TRUE

\* "Check if anchor text exists in content" of _find_service_opportunities
AnchorInContent(anchor, content_text) == Contains(Lower(content_text), Lower(anchor))

\* the body of "for keyword in ..." of _find_service_opportunities for one
\* keyword: every match asks get_best_anchor for the same anchor, and the
\* first match whose anchor is in the content appends and leaves the loop
\* over the matches
ServiceOppsForKeyword(source_url, source_title, content_text, service_key, service_data, keyword) ==
    LET matches == find_keyword_in_content(content_text, keyword)
        pool == Get(AnchorPools, service_key, <<>>)
        anchor_result == get_best_anchor(pool, Get(service_data, "title", <<>>),
                                         Get(service_data, "keywords", <<<<>>>>)[1],
                                         <<>>)
    IN  IF /\ matches # {}
           /\ pool # <<>>
           /\ anchor_result # None
           /\ AnchorInContent(anchor_result[1], content_text)
        THEN <<[source_url |-> source_url, source_title |-> source_title,
                target_url |-> service_data["url"], target_type |-> "service",
                suggested_anchor |-> anchor_result[1], confidence_score |-> 0,
                reasoning |-> <<"Content mentions", keyword, service_key>>,
                position_in_content |-> Min(matches)]>>
        ELSE <<>>

RECURSIVE ServiceOppsForKeywords(_, _, _, _, _, _)
ServiceOppsForKeywords(source_url, source_title, content_text, service_key, service_data, keywords) ==
    IF keywords = <<>> THEN <<>>
    ELSE ServiceOppsForKeyword(source_url, source_title, content_text, service_key,
                               service_data, Head(keywords))
         \o ServiceOppsForKeywords(source_url, source_title, content_text, service_key,
                                   service_data, Tail(keywords))

\* an "already linked" test on the URLs as written
AlreadyLinkedAsWritten(target_url, existing_links) ==
    target_url \in Range(existing_links)

\* "Skip if already linked" of _find_service_opportunities and of
\* _find_permit_opportunities
AlreadyLinked(target_url, existing_links) ==
    normalize_url(target_url) \in NormalizedLinks(existing_links)

\* "Skip if linking to self" of _find_service_opportunities
LinksToSelf(source_url, target_url) ==
    normalize_url(source_url) = normalize_url(target_url)

\* OpportunityEngine._find_service_opportunities, over the hubs in their order
RECURSIVE ServiceOppsForHubs(_, _, _, _, _)
ServiceOppsForHubs(source_url, source_title, content_text, existing_links, hubs) ==
    IF hubs = <<>> THEN <<>>
    ELSE LET service_key == Head(hubs).key
             service_data == Head(hubs).data
             here ==
                 IF \/ AlreadyLinked(service_data["url"], existing_links)
                    \/ LinksToSelf(source_url, service_data["url"])
                 THEN <<>>
                 ELSE ServiceOppsForKeywords(source_url, source_title, content_text,
                                             service_key, service_data,
                                             Get(service_data, "keywords", <<>>))
         IN  here \o ServiceOppsForHubs(source_url, source_title, content_text,
                                        existing_links, Tail(hubs))

find_service_opportunities(source_url, source_title, content_text, existing_links) ==
    ServiceOppsForHubs(source_url, source_title, content_text, existing_links,
                       Get(KnowledgeGraph, "service_hubs", <<>>))

\* the first term of the list that occurs in the content, or None
RECURSIVE FirstGeoTerm(_, _)
FirstGeoTerm(geo_terms, content_text) ==
    IF geo_terms = <<>> THEN None
    ELSE IF Contains(Lower(content_text), Lower(Head(geo_terms))) THEN Head(geo_terms)
    ELSE FirstGeoTerm(Tail(geo_terms), content_text)

\* the first permit page whose geo_terms hold the term (case-insensitively), as
\* <<permit>>, or None
RECURSIVE FirstPermitPageFor(_, _)
FirstPermitPageFor(found_city, permits) ==
    IF permits = <<>> THEN None
    ELSE IF Lower(found_city) \in
              {Lower(t) : t \in Range(Get(Head(permits), "geo_terms", <<>>))}
    THEN <<Head(permits)>>
    ELSE FirstPermitPageFor(found_city, Tail(permits))

PermitPages == Get(Get(KnowledgeGraph, "authority_hubs", EmptyDict), "permit_pages", <<>>)
DefaultHubUrl == <<Slash, "service-areas-map", Slash>>

\* OpportunityEngine._determine_permit_target: <<target_url, link_type, reasoning>>
determine_permit_target(content_text) ==
    LET hub_url == Get(PermitRules, "hub_url", DefaultHubUrl)
        found_city == FirstGeoTerm(Get(PermitRules, "geo_context_terms", <<>>), content_text)
        permit == IF found_city = None THEN None
                  ELSE FirstPermitPageFor(found_city, PermitPages)
    IN  IF ~Get(PermitRules, "permit_link_requires_geo_context", TRUE)
        THEN <<hub_url, "permit_hub", "Default to hub (no geo-context required)">>
        ELSE IF found_city # None /\ permit # None
        THEN <<permit[1]["url"], "permit_city", <<"Geo-context detected", found_city>>>>
        ELSE IF Get(PermitRules, "hub_priority", TRUE)
        THEN <<hub_url, "permit_hub", "Hub priority (no specific geo-context)">>
        ELSE <<None, "none", "">>

\* a count of existing permit links that finds none
ExistingPermitCountZero(existing_links) == 0

\* sum(1 for link in existing_links if self.architect.is_permit_page(link))
ExistingPermitCount(existing_links) ==
    Cardinality({i \in 1..Len(existing_links) : is_permit_page(existing_links[i])})

\* OpportunityEngine._find_permit_opportunities
find_permit_opportunities(source_url, source_title, content_text, existing_links, source_page_type) ==
    LET allowed_sources == Get(PermitRules, "allowed_sources",
                               <<"blog", "money_page", "project">>)
        max_permit_links == Get(Limits, "max_permit_links_per_page", 1)
        target == determine_permit_target(content_text)
        pool == IF target[2] = "permit_hub"
                THEN Get(AnchorPools, "permits_general", <<>>)
                ELSE Get(AnchorPools, "permits_location_safe", <<>>)
    IN  IF source_page_type \notin Range(allowed_sources) THEN <<>>
        ELSE IF Get(PermitRules, "no_permit_to_permit", TRUE)
                /\ source_page_type = "permit_page" THEN <<>>
        ELSE IF ExistingPermitCount(existing_links) >= max_permit_links THEN <<>>
        ELSE IF /\ target[1] # None
                /\ ~AlreadyLinked(target[1], existing_links)
                /\ pool # <<>>
        THEN <<[source_url |-> source_url, source_title |-> source_title,
                target_url |-> target[1], target_type |-> target[2],
                suggested_anchor |-> pool[1], confidence_score |-> 0,
                reasoning |-> target[3], position_in_content |-> 0]>>
        ELSE <<>>

\* min(score, 1.0)
ClampScore(score) == IF score < 1000 THEN score ELSE 1000

\* a _calculate_score that gives the campaign bonus to targets of any type
calculate_score_any_type(opportunity, source_url) ==
    LET target_url == Lower(opportunity.target_url)
        campaign ==
            IF Contains(target_url, Lower(PrimaryCampaign))
            THEN (Get(Weights, "campaign_alignment", 200) * BoostMultiplier) \div 1000
            ELSE IF Contains(target_url, Lower(SecondaryCampaign))
            THEN Get(Weights, "campaign_alignment", 200)
            ELSE 0
        hub == IF opportunity.target_type = "permit_hub" THEN 100 ELSE 0
        city == IF opportunity.target_type = "permit_city" THEN 150 ELSE 0
    IN  ClampScore(500 + campaign + hub + city)

\* OpportunityEngine._calculate_score, in thousandths
calculate_score(opportunity, source_url) ==
    LET target_url == Lower(opportunity.target_url)
        campaign ==
            IF opportunity.target_type # "service" THEN 0
            ELSE IF Contains(target_url, Lower(PrimaryCampaign))
            THEN (Get(Weights, "campaign_alignment", 200) * BoostMultiplier) \div 1000
            ELSE IF Contains(target_url, Lower(SecondaryCampaign))
            THEN Get(Weights, "campaign_alignment", 200)
            ELSE 0
        hub == IF opportunity.target_type = "permit_hub" THEN 100 ELSE 0
        city == IF opportunity.target_type = "permit_city" THEN 150 ELSE 0
    IN  ClampScore(500 + campaign + hub + city)

\* for opp in opportunities: opp.confidence_score = self._calculate_score(...)
Scored(opps, source_url) ==
    [i \in 1..Len(opps) |->
        [opps[i] EXCEPT !.confidence_score = calculate_score(opps[i], source_url)]]

\* a sort that leaves the order as it is
SortNothing(opps) == opps

\* [o for o in opportunities if o.confidence_score >= self.min_score]
RECURSIVE FilterByMinScore(_)
FilterByMinScore(opps) ==
    IF opps = <<>> THEN <<>>
    ELSE (IF Head(opps).confidence_score >= MinScore THEN <<Head(opps)>> ELSE <<>>)
         \o FilterByMinScore(Tail(opps))

\* list.sort(key=confidence_score, reverse=True): stable, equal scores keep their order
RECURSIVE InsertByScore(_, _)
InsertByScore(sorted, opp) ==
    IF sorted = <<>> THEN <<opp>>
    ELSE IF Head(sorted).confidence_score >= opp.confidence_score
    THEN <<Head(sorted)>> \o InsertByScore(Tail(sorted), opp)
    ELSE <<opp>> \o sorted

RECURSIVE SortByScoreDesc(_)
SortByScoreDesc(opps) ==
    IF opps = <<>> THEN <<>>
    ELSE InsertByScore(SortByScoreDesc(SubSeq(opps, 1, Len(opps) - 1)), opps[Len(opps)])

\* a limit test that never stops the search
PageNeverAtLimit(current_link_count, max_links) == FALSE

\* "if current_link_count >= max_links: return []" of find_opportunities
PageAtLimit(current_link_count, max_links) == current_link_count >= max_links

\* an exclusion test that skips no page
SkipNoPage(page_type) == FALSE

\* "if page_type == 'excluded'" of find_opportunities and of SEOEngine.run
SkipExcluded(page_type) == page_type = "excluded"

\* OpportunityEngine.find_opportunities
find_opportunities(source_url, source_title, content_text, existing_links) ==
    LET page_type == classify_page(source_url)[1]
        max_links == Get(Limits, "max_links_per_page", 2)
        current_link_count == Len(existing_links)
        slots_available == max_links - current_link_count
        opportunities ==
            find_service_opportunities(source_url, source_title, content_text,
                                       existing_links)
            \o find_permit_opportunities(source_url, source_title, content_text,
                                         existing_links, page_type)
    IN  IF SkipExcluded(page_type) THEN <<>>
        ELSE IF PageAtLimit(current_link_count, max_links) THEN <<>>
        ELSE SliceTo(SortByScoreDesc(FilterByMinScore(Scored(opportunities, source_url))),
                     slots_available)

(***************************************************************************)
(* SEOEngine.  The pages of a crawl result carry their content_text and    *)
(* their existing_links, so that run extracts neither from content_html.   *)
(***************************************************************************)
\* d[k] = v on an ordered dict kept as a sequence of <<key, value>>: a known
\* key keeps its place
RECURSIVE OrderedPut(_, _, _)
OrderedPut(d, k, v) ==
    IF d = <<>> THEN <<<<k, v>>>>
    ELSE IF Head(d)[1] = k THEN <<<<k, v>>>> \o Tail(d)
    ELSE <<Head(d)>> \o OrderedPut(Tail(d), k, v)

RECURSIVE KeywordMapHubs(_, _)
KeywordMapHubs(target_map, hubs) ==
    IF hubs = <<>> THEN target_map
    ELSE LET name == Head(hubs).key
             hub == Head(hubs).data
         IN  KeywordMapHubs(
                 OrderedPut(target_map, Get(hub, "url", <<>>),
                            Get(hub, "keywords", <<>>) \o Get(AnchorPools, name, <<>>)),
                 Tail(hubs))

RECURSIVE KeywordMapMaterials(_, _)
KeywordMapMaterials(target_map, materials) ==
    IF materials = <<>> THEN target_map
    ELSE LET name == Lower(Get(Head(materials), "name", <<>>))
         IN  KeywordMapMaterials(
                 OrderedPut(target_map, Get(Head(materials), "url", <<>>),
                            <<name, name \o <<" ", "pavers">>>>),
                 Tail(materials))

\* SEOEngine._build_keyword_map: target URL -> keywords, in insertion order
build_keyword_map ==
    KeywordMapMaterials(
        KeywordMapHubs(<<>>, Get(KnowledgeGraph, "service_hubs", <<>>)),
        Get(KnowledgeGraph, "materials", <<>>))

\* "Skip if already linked" and "Don't link to self" of SEOEngine.run
RunSkipsTarget(url, target_url, existing_links) ==
    \/ \E i \in 1..Len(existing_links) :
           normalize_url(existing_links[i]) = normalize_url(target_url)
    \/ normalize_url(url) = normalize_url(target_url)

\* "Calculate confidence" of SEOEngine.run: <<confidence, campaign_match>>
RunConfidence(target_url) ==
    IF Contains(Lower(target_url), Get(Campaigns, "primary", <<>>))
    THEN <<700 + 150, Get(Campaigns, "primary", None)>>
    ELSE IF Contains(Lower(target_url), Get(Campaigns, "secondary", <<>>))
    THEN <<700 + 100, Get(Campaigns, "secondary", None)>>
    ELSE <<700, None>>

\* any(cta.lower() in keyword_lower or keyword_lower in cta.lower() for cta in cta_patterns)
IsCta(keyword_lower) ==
    LET cta_patterns == Get(Get(config, "placement", EmptyDict), "cta_patterns", <<>>)
    IN  \E i \in 1..Len(cta_patterns) :
            \/ Contains(keyword_lower, Lower(cta_patterns[i]))
            \/ Contains(Lower(cta_patterns[i]), keyword_lower)

\* the loop "for keyword in keywords" of SEOEngine.run:
\* <<suggestions so far, suggestions_for_page>>
RECURSIVE RunKeywordLoop(_, _, _, _, _, _, _)
RunKeywordLoop(page, page_type, target_url, keywords, max_per_page, acc, count) ==
    IF keywords = <<>> THEN <<acc, count>>
    ELSE LET keyword == Head(keywords)
             keyword_lower == Lower(keyword)
             conf == RunConfidence(target_url)
             suggestion ==
                 [source_url |-> page.url, source_title |-> page.title,
                  target_url |-> target_url, target_type |-> "money_page",
                  suggested_anchor |-> keyword, confidence_score |-> conf[1],
                  campaign_alignment |-> conf[2], source_type |-> page_type,
                  action |-> "PENDING"]
         IN  IF Contains(Lower(page.content_text), keyword_lower) /\ ~IsCta(keyword_lower)
             THEN IF count + 1 >= max_per_page
                  THEN <<Append(acc, suggestion), count + 1>>
                  ELSE RunKeywordLoop(page, page_type, target_url, Tail(keywords),
                                      max_per_page, Append(acc, suggestion), count + 1)
             ELSE RunKeywordLoop(page, page_type, target_url, Tail(keywords),
                                 max_per_page, acc, count)

\* the loop "for target_url, keywords in target_keywords.items()" of SEOEngine.run
RECURSIVE RunTargetLoop(_, _, _, _, _, _)
RunTargetLoop(page, page_type, targets, max_per_page, acc, count) ==
    IF targets = <<>> THEN acc
    ELSE IF RunSkipsTarget(page.url, Head(targets)[1], page.existing_links)
    THEN RunTargetLoop(page, page_type, Tail(targets), max_per_page, acc, count)
    ELSE LET r == RunKeywordLoop(page, page_type, Head(targets)[1], Head(targets)[2],
                                 max_per_page, acc, count)
         IN  IF r[2] >= max_per_page THEN r[1]
             ELSE RunTargetLoop(page, page_type, Tail(targets), max_per_page, r[1], r[2])

\* a test that takes any existing link for a permit link
HasAnyLink(existing_links) == existing_links # <<>>

\* "Check for existing permit links" of _analyze_permit_opportunity
HasPermitLink(existing_links) ==
    \E i \in 1..Len(existing_links) : is_permit_page(existing_links[i])

\* SEOEngine._analyze_permit_opportunity: <<permit decision>>, or None
analyze_permit_opportunity(url, page_type, content_text, existing_links) ==
    LET allowed == Get(PermitRules, "allowed_sources", <<"blog", "money_page", "project">>)
        found_geo == FirstGeoTerm(Get(PermitRules, "geo_context_terms", <<>>), content_text)
        permit == IF found_geo = None THEN None
                  ELSE FirstPermitPageFor(found_geo, PermitPages)
    IN  IF page_type \notin Range(allowed) THEN None
        ELSE IF HasPermitLink(existing_links)
        THEN None
        ELSE IF found_geo # None /\ permit # None
        THEN <<[source_url |-> url, source_type |-> page_type,
                anchor_used |-> <<"permit requirements in">> \o found_geo,
                permit_target |-> permit[1]["url"], permit_decision |-> "approved",
                geo_context_detected |-> found_geo, fallback_used |-> FALSE,
                confidence |-> 900]>>
        ELSE <<[source_url |-> url, source_type |-> page_type,
                anchor_used |-> <<"local permit approval process">>,
                permit_target |-> Get(PermitRules, "hub_url", DefaultHubUrl),
                permit_decision |-> "hub_fallback",
                geo_context_detected |-> None, fallback_used |-> TRUE,
                confidence |-> 750]>>

\* SEOEngine._count_inbound: over every source recorded in site_links
RECURSIVE CountInboundOver(_, _, _)
CountInboundOver(sources, normalized, links_of) ==
    IF sources = {} THEN 0
    ELSE LET source == CHOOSE x \in sources : TRUE
         IN  Cardinality({i \in 1..Len(links_of[source]) :
                             normalize_url(links_of[source][i]) = normalized})
             + CountInboundOver(sources \ {source}, normalized, links_of)

count_inbound(url, links_of) ==
    CountInboundOver(DOMAIN links_of, normalize_url(url), links_of)

\* a _calculate_hub_score that looks at the number of links only
calculate_hub_score_any_type(page_type, link_count) ==
    IF link_count >= 5 THEN "High"
    ELSE IF link_count >= 2 THEN "Medium"
    ELSE "Low"

\* SEOEngine._calculate_hub_score
calculate_hub_score(page_type, link_count) ==
    IF page_type \in {"money_page", "hub"} /\ link_count >= 5 THEN "High"
    ELSE IF page_type \in {"money_page", "hub"} /\ link_count >= 2 THEN "Medium"
    ELSE "Low"

\* SEOEngine._determine_status
determine_status(page_type, link_count) ==
    IF page_type = "money_page" /\ link_count < 2 THEN "NEEDS_LINKS"
    ELSE IF link_count > 5 THEN "OVER_LINKED"
    ELSE "OK"

(***************************************************************************)
(* Inputs of the model: configurations, URLs, pages, anchors.              *)
(***************************************************************************)
HubA ==
    [key |-> "driveways",
     data |-> [url |-> <<Slash, "driveways-miami", Slash>>,
               keywords |-> <<<<"driveway">>, <<"installation">>>>,
               title |-> <<"driveways", "miami">>]]

HubB ==
    [key |-> "patios",
     data |-> [url |-> <<Origin, Slash, "patios">>,
               keywords |-> <<<<"patio">>>>,
               title |-> <<"patios", "miami">>]]

MaterialT == [url |-> <<Slash, "travertine", Slash>>, name |-> <<"Travertine">>]

PermitPageMB ==
    [url |-> <<Slash, "permits", Slash, "miami-beach", Slash>>, city |-> "miami-beach",
     geo_terms |-> <<<<"Miami", "Beach">>>>]

PermitHub == [url |-> <<Slash, "service-areas-map", Slash>>, title |-> <<"service", "areas">>]

EnginePools ==
    [driveways |-> <<<<"driveway">>, <<"Driveway", "installation">>>>,
     patios |-> <<<<"patio", "installation">>>>,
     permits_general |-> <<<<"local", "permit", "process">>>>,
     permits_location_safe |-> <<<<"permit", "requirements">>>>]

EngineAnchorRules == [min_anchor_length |-> 2, max_anchor_length |-> 4]

HubOptions == {<<HubA>>, <<HubA, HubB>>}

CampaignOptions ==
    {EmptyDict,
     [active_campaigns |-> [primary |-> <<"driveways-miami">>, secondary |-> <<"patios">>]],
     [active_campaigns |-> [primary |-> <<"turf">>, secondary |-> <<"pavers">>,
                            boost_multiplier |-> 2000]]}

\* <<permit_rules, authority_hubs>>
PermitOptions ==
    {<<EmptyDict, EmptyDict>>,
     <<[permit_rules |-> [hub_url |-> <<Slash, "blog", Slash, "permits", Slash>>,
                          geo_context_terms |-> <<<<"Coral", "Gables">>, <<"miami", "beach">>>>]],
       [permit_pages |-> <<PermitPageMB>>]>>,
     <<[permit_rules |-> [hub_priority |-> FALSE,
                          geo_context_terms |-> <<<<"Miami", "Beach">>>>]],
       [permit_hub |-> PermitHub, permit_pages |-> <<PermitPageMB>>]>>,
     <<[permit_rules |-> [permit_link_requires_geo_context |-> FALSE,
                          allowed_sources |-> <<"blog", "unknown">>]],
       [permit_hub |-> PermitHub]>>}

ExclusionOptions ==
    {EmptyDict,
     [exclusions |-> [urls |-> <<<<Origin, Slash, "Private">>>>,
                      patterns |-> <<<<Slash, "blog", Slash, "draft", "*">>,
                                     <<Slash, "service-areas-map", "*">>>>]]}

LimitOptions ==
    {EmptyDict,
     [limits |-> [max_links_per_page |-> 1, max_permit_links_per_page |-> 2]]}

\* a configuration whose second service hub is the primary campaign and whose
\* first is the secondary one, with a permit hub under the URL of the first
RankConfig ==
    [site |-> [url |-> <<Origin, Slash>>],
     anchor_pools |-> EnginePools,
     anchor_rules |-> EngineAnchorRules,
     knowledge_graph |-> [service_hubs |-> <<HubB, HubA>>, materials |-> <<MaterialT>>,
                          authority_hubs |-> [permit_hub |-> PermitHub]],
     active_campaigns |-> [primary |-> <<"driveways-miami">>, secondary |-> <<"patios">>],
     permit_rules |-> [hub_url |-> <<Slash, "patios", Slash, "permits", Slash>>]]

\* a configuration that lets permit pages link to permits, with a permit page
\* at the URL of a blog post
PermitToPermitConfig ==
    [site |-> [url |-> <<Origin, Slash>>],
     anchor_pools |-> EnginePools,
     anchor_rules |-> EngineAnchorRules,
     knowledge_graph |->
         [service_hubs |-> <<HubA>>, materials |-> <<MaterialT>>,
          authority_hubs |->
              [permit_hub |-> PermitHub,
               permit_pages |-> <<[url |-> <<Slash, "blog", Slash, "tips", Slash>>,
                                   city |-> "tips",
                                   geo_terms |-> <<<<"Coral", "Gables">>>>]>>]],
     permit_rules |-> [no_permit_to_permit |-> FALSE,
                       allowed_sources |-> <<"permit_page", "blog">>],
     limits |-> [max_links_per_page |-> 3, max_permit_links_per_page |-> 2]]

EngineConfigs ==
    {[site |-> [url |-> <<Origin, Slash>>],
      anchor_pools |-> EnginePools,
      anchor_rules |-> EngineAnchorRules,
      knowledge_graph |-> [service_hubs |-> hubs, materials |-> <<MaterialT>>,
                           authority_hubs |-> permit[2]]]
     @@ campaign @@ permit[1] @@ exclusion @@ limit :
        hubs \in HubOptions, campaign \in CampaignOptions, permit \in PermitOptions,
        exclusion \in ExclusionOptions, limit \in LimitOptions}
    \cup {RankConfig, PermitToPermitConfig}

PageUrls ==
    {<<Slash, "blog", Slash, "tips">>,
     <<Origin, Slash, "Blog", Slash, "permits", Slash, "?utm_source=x">>,
     <<Slash, "Driveways-Miami">>,
     <<Slash, "blog", Slash, "draft", "-1", Slash>>,
     <<Slash, "service-areas-map">>}

PageTexts ==
    {<<>>,
     <<"Driveway", "installation", "in", "Miami", "Beach">>,
     <<"patio", "installation", "travertine">>,
     <<"Driveway", "installation", "and", "patio", "installation">>,
     <<"driveway", "tips">>}

PageLinks ==
    {<<>>,
     <<<<Origin, Slash, "Driveways-Miami", Slash>>>>,
     <<<<Slash, "permits", Slash, "miami-beach">>>>,
     <<<<Slash, "a">>, <<Slash, "blog", Slash, "tips">>>>,
     <<<<Slash, "a">>, <<Slash, "a">>, <<Slash, "b">>>>}

Pages ==
    {[url |-> u, title |-> <<"title">>, content_text |-> t, existing_links |-> l] :
        u \in PageUrls, t \in PageTexts, l \in PageLinks}

\* the pages a crawl result is made of
CrawlPages ==
    {[url |-> <<Slash, "blog", Slash, "tips">>, title |-> <<"title">>,
      content_text |-> <<"Driveway", "installation", "in", "Miami", "Beach">>,
      existing_links |-> <<>>],
     [url |-> <<Slash, "blog", Slash, "tips">>, title |-> <<"title">>,
      content_text |-> <<"patio", "installation", "travertine">>,
      existing_links |-> <<<<Origin, Slash, "Driveways-Miami", Slash>>>>],
     [url |-> <<Origin, Slash, "Blog", Slash, "permits", Slash, "?utm_source=x">>,
      title |-> <<"title">>,
      content_text |-> <<"Coral", "Gables", "and", "Miami", "Beach">>,
      existing_links |-> <<<<Slash, "a">>, <<Slash, "blog", Slash, "tips">>>>],
     [url |-> <<Slash, "Driveways-Miami">>, title |-> <<"title">>,
      content_text |-> <<"patio", "installation", "travertine">>,
      existing_links |-> <<<<Slash, "permits", Slash, "miami-beach">>>>],
     [url |-> <<Slash, "blog", Slash, "draft", "-1", Slash>>, title |-> <<"title">>,
      content_text |-> <<"Driveway", "installation", "in", "Miami", "Beach">>,
      existing_links |-> <<>>],
     [url |-> <<Slash, "service-areas-map">>, title |-> <<"title">>,
      content_text |-> <<"driveway", "tips">>,
      existing_links |-> <<<<Slash, "a">>, <<Slash, "b">>>>],
     [url |-> <<Slash, "Driveways-Miami">>, title |-> <<"title">>,
      content_text |-> <<"driveway", "tips">>,
      existing_links |-> <<<<Slash, "a">>, <<Slash, "b">>, <<Slash, "c">>, <<Slash, "d">>,
                           <<Slash, "e">>, <<Slash, "f">>>>]}

ClassifyUrls ==
    PageUrls \cup
    {<<Slash, "driveways-miami", Slash>>, <<Origin, Slash, "patios">>,
     <<Slash, "permits", Slash, "miami-beach", Slash>>, <<Slash, "travertine">>,
     <<Slash, "private", Slash>>, <<Slash, "guide", Slash, "projects">>,
     <<Slash, "projects", Slash, "about">>, <<Slash, "portfolio", Slash, "contact">>,
     <<Slash, "contact">>, <<Slash, "about", Slash>>, <<Slash, "blog">>, <<>>}

(***************************************************************************)
(* The engine: one configuration, its classifier, validator and engines.   *)
(***************************************************************************)
Init ==
    /\ config \in EngineConfigs
    /\ url_index = build_url_index
    /\ rotation_memory = <<>>
    /\ recorded = <<>>
    /\ ret = [op |-> "init"]
    /\ pages_data = <<>>
    /\ page_idx = 0
    /\ site_links = EmptyDict
    /\ all_suggestions = <<>>
    /\ all_permits = <<>>
    /\ all_architecture = <<>>
    /\ pc = "idle"
    /\ IoInit

\* the arguments and local variables of SEOEngine.run
RunLocals == <<pages_data, page_idx, site_links, all_suggestions, all_permits,
               all_architecture>>

\* the caller takes the result; the engine is ready for the next call
Resume ==
    /\ pc = "returned"
    /\ pc' = "idle"
    /\ ret' = [op |-> "init"]
    /\ UNCHANGED <<IoVars, config, url_index, rotation_memory, recorded, RunLocals>>

\* a call of SiteArchitect.classify_page
ClassifyPage ==
    /\ pc = "idle"
    /\ \E url \in ClassifyUrls :
           ret' = [op |-> "classify_page", url |-> url, result |-> classify_page(url)]
    /\ pc' = "returned"
    /\ UNCHANGED <<IoVars, config, url_index, rotation_memory, recorded, RunLocals>>

\* a call of OpportunityEngine.find_opportunities
FindOpportunities ==
    /\ pc = "idle"
    /\ \E page \in Pages :
           ret' = [op |-> "find_opportunities", source_url |-> page.url,
                   content_text |-> page.content_text,
                   existing_links |-> page.existing_links,
                   result |-> find_opportunities(page.url, page.title, page.content_text,
                                                 page.existing_links)]
    /\ pc' = "returned"
    /\ UNCHANGED <<IoVars, config, url_index, rotation_memory, recorded, RunLocals>>

\* SEOEngine.run, up to its loop over the pages
RunStart ==
    /\ pc = "idle"
    /\ \E pages \in SeqsUpTo(CrawlPages, MaxPages) :
           /\ pages # <<>>
           /\ pages_data' = pages
    /\ page_idx' = 0
    /\ site_links' = EmptyDict
    /\ all_suggestions' = <<>>
    /\ all_permits' = <<>>
    /\ all_architecture' = <<>>
    /\ pc' = "run"
    /\ ret' = [op |-> "run"]
    /\ UNCHANGED <<IoVars, config, url_index, rotation_memory, recorded>>

\* SEOEngine.run: one pass of "for page in pages_data"
RunPage ==
    /\ pc = "run"
    /\ page_idx < Len(pages_data)
    /\ LET page == pages_data[page_idx + 1]
           links == DictPut(site_links, page.url, page.existing_links)
           page_type == classify_page(page.url)[1]
           permit_result == analyze_permit_opportunity(page.url, page_type, page.content_text,
                                                       page.existing_links)
           arch_entry ==
               [url |-> page.url, page_type |-> page_type,
                click_depth |-> Get(page, "depth", 2),
                inbound_links |-> count_inbound(page.url, links),
                outbound_links |-> Len(page.existing_links),
                hub_score |-> calculate_hub_score(page_type, Len(page.existing_links)),
                status |-> determine_status(page_type, Len(page.existing_links))]
       IN  /\ site_links' = links
           /\ IF SkipExcluded(page_type)
              THEN UNCHANGED <<all_suggestions, all_permits, all_architecture>>
              ELSE /\ all_permits' = IF permit_result # None
                                     THEN Append(all_permits, permit_result[1])
                                     ELSE all_permits
                   /\ all_architecture' = Append(all_architecture, arch_entry)
                   /\ all_suggestions' =
                          IF page_type = "money_page" THEN all_suggestions
                          ELSE RunTargetLoop(page, page_type, build_keyword_map,
                                             Get(Limits, "max_links_per_page", 2),
                                             all_suggestions, 0)
    /\ page_idx' = page_idx + 1
    /\ UNCHANGED <<IoVars, config, url_index, rotation_memory, recorded, ret, pages_data, pc>>

\* SEOEngine.run: the return after the loop; its locals are gone
RunReturn ==
    /\ pc = "run"
    /\ page_idx = Len(pages_data)
    /\ ret' = [op |-> "run", pages_data |-> pages_data,
               result |-> [suggestions |-> all_suggestions, permits |-> all_permits,
                           architecture |-> all_architecture, draft_payloads |-> <<>>]]
    /\ pc' = "returned"
    /\ pages_data' = <<>>
    /\ page_idx' = 0
    /\ site_links' = EmptyDict
    /\ all_suggestions' = <<>>
    /\ all_permits' = <<>>
    /\ all_architecture' = <<>>
    /\ UNCHANGED <<IoVars, config, url_index, rotation_memory, recorded>>

Next == ClassifyPage \/ FindOpportunities \/ RunStart \/ RunPage \/ RunReturn \/ Resume

Spec == Init /\ [][Next]_vars

(***************************************************************************)
(* normalize_url on its own: a site base and any URL.                      *)
(***************************************************************************)
SiteBases ==
    {<<Origin>>, <<Origin, Slash>>, <<Origin, Slash, "shop">>, <<Origin, Slash, "Shop", Slash>>}

PathSyms == {Slash, "foo", "Foo"}
PathTexts == SeqsUpTo(PathSyms, MaxPathLen)

\* scheme and host or nothing, a path, a query string or nothing
NormalizeUrls ==
    {host \o path \o query :
        host \in {<<>>, <<Origin>>}, path \in PathTexts,
        query \in {<<>>} \cup {<<q>> : q \in QuerySyms}}

InitNormalize ==
    /\ config \in {[site |-> [url |-> base]] : base \in SiteBases}
    /\ url_index = build_url_index
    /\ rotation_memory = <<>>
    /\ recorded = <<>>
    /\ ret = [op |-> "init"]
    /\ pages_data = <<>>
    /\ page_idx = 0
    /\ site_links = EmptyDict
    /\ all_suggestions = <<>>
    /\ all_permits = <<>>
    /\ all_architecture = <<>>
    /\ pc = "idle"
    /\ IoInit

\* a call of SiteArchitect.normalize_url
NormalizeUrl ==
    /\ pc = "idle"
    /\ \E url \in NormalizeUrls :
           ret' = [op |-> "normalize_url", url |-> url, result |-> normalize_url(url),
                   of_result |-> FALSE]
    /\ pc' = "returned"
    /\ UNCHANGED <<IoVars, config, url_index, rotation_memory, recorded, RunLocals>>

\* a call of SiteArchitect.normalize_url on the value the last call returned
NormalizeResult ==
    /\ pc = "returned"
    /\ ret.op = "normalize_url"
    /\ ~ret.of_result
    /\ ret' = [op |-> "normalize_url", url |-> ret.result,
               result |-> normalize_url(ret.result), of_result |-> TRUE]
    /\ UNCHANGED <<IoVars, config, url_index, rotation_memory, recorded, RunLocals, pc>>

NextNormalize == NormalizeUrl \/ NormalizeResult \/ Resume

SpecNormalize == InitNormalize /\ [][NextNormalize]_vars

(***************************************************************************)
(* The AnchorValidator on its own.                                         *)
(***************************************************************************)
AnchorTexts ==
    {<<"paver", "patios">>, <<" ", "Paver", "Patios", " ">>, <<"driveway", "installation">>,
     <<"pool", "deck", "pavers">>, <<"patio">>,
     <<"pool", "deck", "pavers", "miami">>}

AnchorTargets ==
    {[title |-> <<"Paver", "Patios">>, keyword |-> <<"driveway">>],
     [title |-> <<"driveways", "miami">>, keyword |-> <<"pool", "deck", "Pavers">>]}

AnchorsOnPage == {<<>>, <<<<"Driveway", "installation">>>>}

AnchorPoolInputs ==
    {<<<<"patio">>, <<"Paver", "Patios">>, <<"driveway", "installation">>>>,
     <<<<"pool", "deck", "pavers">>, <<"paver", "patios">>>>}

AnchorRuleOptions ==
    {EmptyDict, [anchor_rules |-> [no_exact_match_target_title |-> FALSE]]}
    \cup {[anchor_rules |-> [rotation_memory |-> n, min_anchor_length |-> 2,
                             max_anchor_length |-> 3]] : n \in 0..MaxMemorySize}

InitAnchor ==
    /\ config \in {[site |-> [url |-> <<Origin>>]] @@ rules : rules \in AnchorRuleOptions}
    /\ url_index = build_url_index
    /\ rotation_memory = <<>>
    /\ recorded = <<>>
    /\ ret = [op |-> "init"]
    /\ pages_data = <<>>
    /\ page_idx = 0
    /\ site_links = EmptyDict
    /\ all_suggestions = <<>>
    /\ all_permits = <<>>
    /\ all_architecture = <<>>
    /\ pc = "idle"
    /\ IoInit

\* a call of AnchorValidator.is_safe_anchor
IsSafeAnchor ==
    /\ pc = "idle"
    /\ \E anchor \in AnchorTexts, target \in AnchorTargets, on_page \in AnchorsOnPage :
           ret' = [op |-> "is_safe_anchor", anchor_text |-> anchor,
                   target_title |-> target.title, primary_keyword |-> target.keyword,
                   existing_anchors_on_page |-> on_page,
                   result |-> is_safe_anchor(anchor, target.title, target.keyword, on_page)]
    /\ pc' = "returned"
    /\ UNCHANGED <<IoVars, config, url_index, rotation_memory, recorded, RunLocals>>

\* a call of AnchorValidator.get_best_anchor
GetBestAnchor ==
    /\ pc = "idle"
    /\ \E pool \in AnchorPoolInputs, target \in AnchorTargets, on_page \in AnchorsOnPage :
           ret' = [op |-> "get_best_anchor", anchor_pool |-> pool,
                   target_title |-> target.title, primary_keyword |-> target.keyword,
                   existing_anchors_on_page |-> on_page,
                   result |-> get_best_anchor(pool, target.title, target.keyword, on_page)]
    /\ pc' = "returned"
    /\ UNCHANGED <<IoVars, config, url_index, rotation_memory, recorded, RunLocals>>

\* a call of AnchorValidator.record_anchor_use
RecordAnchorUse ==
    /\ pc = "idle"
    /\ Len(recorded) < MaxRecorded
    /\ \E anchor \in AnchorTexts :
           /\ rotation_memory' = record_anchor_use(rotation_memory, anchor)
           /\ recorded' = Append(recorded, anchor)
           /\ ret' = [op |-> "record_anchor_use", anchor_text |-> anchor]
    /\ pc' = "returned"
    /\ UNCHANGED <<IoVars, config, url_index, RunLocals>>

NextAnchor == IsSafeAnchor \/ GetBestAnchor \/ RecordAnchorUse \/ Resume

SpecAnchor == InitAnchor /\ [][NextAnchor]_vars

(***************************************************************************)
(* Properties.                                                             *)
(***************************************************************************)
\* the opportunities find_opportunities returned, when ret holds such a return
ReturnedOpportunities ==
    IF ret.op = "find_opportunities" THEN Range(ret.result) ELSE {}

\* the suggestions of SEOEngine.run: those gathered so far in the loop, and
\* those of the result it returned
RunSuggestions ==
    Range(all_suggestions)
    \cup (IF ret.op = "run" /\ pc = "returned" THEN Range(ret.result.suggestions) ELSE {})

RunPermits ==
    Range(all_permits)
    \cup (IF ret.op = "run" /\ pc = "returned" THEN Range(ret.result.permits) ELSE {})

RunArchitecture ==
    Range(all_architecture)
    \cup (IF ret.op = "run" /\ pc = "returned" THEN Range(ret.result.architecture) ELSE {})

\* C1: no opportunity returned by find_opportunities and no suggestion of run
\* has a target whose normalized URL is the normalized URL of its source page.
C1_NoSelfLink ==
    /\ \A opp \in ReturnedOpportunities :
           normalize_url(opp.target_url) # normalize_url(opp.source_url)
    /\ \A s \in RunSuggestions :
           normalize_url(s.target_url) # normalize_url(s.source_url)

\* C3: normalize_url is idempotent: normalizing a value that normalize_url
\* returned gives that value back.
C3_Idempotent ==
    ret.op = "normalize_url" /\ ret.of_result => ret.result = ret.url

\* the forms of the resource "/p": relative, absolute, absolute with a trailing
\* slash, in any letter case, with or without a tracking parameter
FormsOf(p) ==
    {base \o <<Slash>> \o q \o slash \o query :
        base \in {<<>>, SiteUrl},
        q \in {x \in [1..Len(p) -> PathSyms] : Lower(x) = Lower(p)},
        slash \in {<<>>, <<Slash>>},
        query \in {<<>>, <<"?utm_source=x">>}}

\* C4: for a site base B and a path p, normalize_url gives one value for "/p",
\* B + "/p" and B + "/p/", whatever the letter case and the tracking parameters.
C4_SameCanonicalValue ==
    ret.op = "normalize_url" =>
        \A p \in {x \in PathTexts : Lower(x) = x} :
            Contains(Lower(ret.url), p) /\ ret.url \in FormsOf(p) =>
                \A other \in FormsOf(p) : normalize_url(other) = ret.result

\* C4, its case: the absolute form in upper case, with trailing slash and a
\* tracking parameter, was normalized to the value of the relative form.
C4_Witness ==
    /\ ret.op = "normalize_url"
    /\ ret.url = <<Origin, Slash, "Foo", Slash, "?utm_source=x">>
    /\ ret.result = <<Slash, "foo", Slash>>
    /\ normalize_url(<<Slash, "foo">>) = ret.result


\* C2, find_opportunities: no returned opportunity targets a page that the
\* existing_links given to the call already link to (by normalized URL).
C2_FindOpportunities ==
    \A opp \in ReturnedOpportunities :
        normalize_url(opp.target_url) \notin NormalizedLinks(ret.existing_links)

\* C2, run: the suggestions that one pass of the loop adds do not target a page
\* that the existing_links of the page of that pass already link to.
C2_RunPage ==
    pc = "run" /\ page_idx' = page_idx + 1 =>
        \A i \in (Len(all_suggestions) + 1)..Len(all_suggestions') :
            normalize_url(all_suggestions'[i].target_url)
                \notin NormalizedLinks(pages_data[page_idx + 1].existing_links)

\* C2: no opportunity of find_opportunities and no suggestion of run has a
\* target whose normalized URL is the normalized URL of an element of the
\* source page's existing_links.
C2_NoExistingTarget == []C2_FindOpportunities /\ [][C2_RunPage]_vars

\* C2, its case: a page that already links to one hub got an opportunity for
\* another target.
C2_Witness ==
    /\ ret.op = "find_opportunities"
    /\ ret.existing_links = <<<<Origin, Slash, "Driveways-Miami", Slash>>>>
    /\ ret.result # <<>>

\* a glob pattern of exclusions.patterns matches the normalized URL
MatchesExclusionPattern(url) ==
    LET patterns == Get(Get(config, "exclusions", EmptyDict), "patterns", <<>>)
    IN  \E i \in 1..Len(patterns) : fnmatch(normalize_url(url), patterns[i])

\* C5 as claimed: every URL whose normalized path matches an exclusion glob
\* pattern classifies as excluded, also when the knowledge graph lists it.
C5_PatternMeansExcluded ==
    ret.op = "classify_page" /\ MatchesExclusionPattern(ret.url) =>
        ret.result[1] = "excluded"

\* C5 amended: a URL whose normalized path matches an exclusion glob pattern
\* and is not a key of the URL index classifies as excluded.
C5_PatternOutsideIndexMeansExcluded ==
    /\ ret.op = "classify_page"
    /\ MatchesExclusionPattern(ret.url)
    /\ normalize_url(ret.url) \notin DOMAIN url_index
    => ret.result[1] = "excluded"

\* C5, its case: a blog URL matched by a pattern classified as excluded.
C5_Witness ==
    /\ ret.op = "classify_page"
    /\ ret.url = <<Slash, "blog", Slash, "draft", "-1", Slash>>
    /\ MatchesExclusionPattern(ret.url)
    /\ ret.result[1] = "excluded"

\* C6: an excluded page is never a source: find_opportunities returns the
\* empty list for it, and run has no suggestion, permit decision or
\* architecture entry whose source_url/url is that page.
C6_ExcludedNeverSource ==
    /\ ret.op = "find_opportunities" /\ classify_page(ret.source_url)[1] = "excluded"
           => ret.result = <<>>
    /\ \A s \in RunSuggestions : classify_page(s.source_url)[1] # "excluded"
    /\ \A d \in RunPermits : classify_page(d.source_url)[1] # "excluded"
    /\ \A a \in RunArchitecture : classify_page(a.url)[1] # "excluded"

\* C6, its case: run went past an excluded page that mentions a hub keyword
\* and a geo term, and then handled a page that is not excluded.
C6_Witness ==
    /\ pc = "run"
    /\ page_idx = 2
    /\ classify_page(pages_data[1].url)[1] = "excluded"
    /\ pages_data[1].content_text = <<"Driveway", "installation", "in", "Miami", "Beach">>
    /\ Len(all_architecture) = 1
    /\ all_suggestions # <<>>

\* C7: no suggestion and no permit decision points at an excluded page.
C7_NoExcludedTarget ==
    /\ \A opp \in ReturnedOpportunities : classify_page(opp.target_url)[1] # "excluded"
    /\ \A s \in RunSuggestions : classify_page(s.target_url)[1] # "excluded"
    /\ \A d \in RunPermits : classify_page(d.permit_target)[1] # "excluded"

\* C8: a source page with at least limits.max_links_per_page existing links
\* gets the empty list from find_opportunities.
C8_SaturatedPageGetsNothing ==
    /\ ret.op = "find_opportunities"
    /\ Len(ret.existing_links) >= Get(Limits, "max_links_per_page", 2)
    => ret.result = <<>>

\* C8, its case: a blog page over the limit whose content mentions two hub
\* keywords, the anchor and a geo term.
C8_Witness ==
    /\ ret.op = "find_opportunities"
    /\ Len(ret.existing_links) > Get(Limits, "max_links_per_page", 2)
    /\ ret.source_url = <<Slash, "blog", Slash, "tips">>
    /\ ret.content_text = <<"Driveway", "installation", "in", "Miami", "Beach">>
    /\ ret.result = <<>>

\* C9: rotation_memory never holds more than the configured number of anchors.
C9_MemoryBounded == Len(rotation_memory) <= MemorySize

\* C9, its case: more anchors were recorded than the memory holds, and the
\* memory is full.
C9_Witness ==
    /\ MemorySize >= 1
    /\ Len(recorded) > MemorySize
    /\ Len(rotation_memory) = MemorySize

\* the form in which is_safe_anchor and record_anchor_use compare anchors
Folded(anchor_text) == Strip(Lower(anchor_text))

\* the last n anchors given to record_anchor_use, folded
LastRecorded(n) ==
    {Folded(recorded[i]) : i \in {j \in 1..Len(recorded) : j > Len(recorded) - n}}

\* the last n anchors given to record_anchor_use, in lower case
LastRecordedLower(n) ==
    {Lower(recorded[i]) : i \in {j \in 1..Len(recorded) : j > Len(recorded) - n}}

\* C10 as claimed: an anchor that passes the length and similarity checks is
\* rejected as recently used exactly when its case-folded form is among the
\* last N anchors given to record_anchor_use, case-folded.
C10_CaseFoldedIsLastN ==
    /\ ret.op = "is_safe_anchor"
    /\ ret.result[2] \notin {"Anchor too short", "Anchor too long",
                             "Too similar to target title",
                             "Too similar to primary keyword"}
    => (ret.result = <<FALSE, "Anchor used recently">>
            <=> Lower(ret.anchor_text) \in LastRecordedLower(MemorySize))

\* C10 amended: an anchor that passes the length and similarity checks is
\* rejected as recently used exactly when its folded form (lower case, without
\* surrounding whitespace) is among the last N anchors given to
\* record_anchor_use, folded the same way (N the configured memory size).
C10_RecentlyUsedIsLastN ==
    /\ ret.op = "is_safe_anchor"
    /\ ret.result[2] \notin {"Anchor too short", "Anchor too long",
                             "Too similar to target title",
                             "Too similar to primary keyword"}
    => (ret.result = <<FALSE, "Anchor used recently">>
            <=> Folded(ret.anchor_text) \in LastRecorded(MemorySize))

\* C10, its case: N + 1 distinct anchors were recorded into a memory of size
\* N >= 1, and the first of them is found safe again.
C10_Witness ==
    /\ MemorySize >= 1
    /\ Len(recorded) = MemorySize + 1
    /\ Cardinality(LastRecorded(MemorySize + 1)) = MemorySize + 1
    /\ ret.op = "is_safe_anchor"
    /\ Folded(ret.anchor_text) = Folded(recorded[1])
    /\ ret.result = <<TRUE, "Safe">>

\* the length limits of anchor_rules, with their defaults
MinAnchorLength == Get(AnchorRules, "min_anchor_length", 10)
MaxAnchorLength == Get(AnchorRules, "max_anchor_length", 50)

LengthReasons == {"Anchor too short", "Anchor too long"}

\* C11 as claimed: an anchor string whose length is below the minimum or above
\* the maximum is rejected by is_safe_anchor with a length-related reason.
C11_LengthOfStringRejected ==
    /\ ret.op = "is_safe_anchor"
    /\ \/ Len(ret.anchor_text) < MinAnchorLength
       \/ Len(ret.anchor_text) > MaxAnchorLength
    => ~ret.result[1] /\ ret.result[2] \in LengthReasons

\* C11 amended: an anchor whose length without surrounding whitespace is below
\* the minimum or above the maximum is rejected by is_safe_anchor with a
\* length-related reason, whatever the title, keyword, memory and page anchors.
C11_LengthRejected ==
    /\ ret.op = "is_safe_anchor"
    /\ \/ Len(Strip(ret.anchor_text)) < MinAnchorLength
       \/ Len(Strip(ret.anchor_text)) > MaxAnchorLength
    => ~ret.result[1] /\ ret.result[2] \in LengthReasons

\* C11, its case: with anchors in the rotation memory, an anchor over the
\* configured maximum that is unlike the title and keyword was rejected as
\* too long.
C11_Witness ==
    /\ ret.op = "is_safe_anchor"
    /\ "anchor_rules" \in DOMAIN config
    /\ "max_anchor_length" \in DOMAIN config["anchor_rules"]
    /\ Len(Strip(ret.anchor_text)) > MaxAnchorLength
    /\ rotation_memory # <<>>
    /\ ret.result = <<FALSE, "Anchor too long">>

\* the service hubs of the knowledge graph, in their order
ServiceHubs == Get(KnowledgeGraph, "service_hubs", <<>>)

\* the anchor get_best_anchor selects for a hub, as <<anchor, reason>>, or None
HubBestAnchor(hub) ==
    get_best_anchor(Get(AnchorPools, hub.key, <<>>), Get(hub.data, "title", <<>>),
                    Get(hub.data, "keywords", <<<<>>>>)[1], <<>>)

\* the keywords of a hub that occur in a content, case-insensitively
KeywordsFound(hub, content_text) ==
    {i \in 1..Len(Get(hub.data, "keywords", <<>>)) :
        Contains(Lower(content_text), Lower(hub.data.keywords[i]))}

\* the places in the list find_opportunities returned that hold a service
\* opportunity for the hub
HubOpps(hub) ==
    {i \in 1..Len(ret.result) :
        /\ ret.result[i].target_type = "service"
        /\ ret.result[i].target_url = hub.data.url}

\* 0.5 plus the bonus of a campaign that is configured and occurs in the
\* target URL, clamped to 1.0
ServiceScoreFloor(target_url) ==
    LET weight == Get(Weights, "campaign_alignment", 200)
        bonus == IF PrimaryCampaign # <<>> /\ Contains(Lower(target_url), Lower(PrimaryCampaign))
                 THEN (weight * BoostMultiplier) \div 1000
                 ELSE IF SecondaryCampaign # <<>>
                         /\ Contains(Lower(target_url), Lower(SecondaryCampaign))
                 THEN weight
                 ELSE 0
    IN  ClampScore(500 + bonus)

\* the service-link scenario: find_opportunities was called for a blog page
\* whose content holds a keyword of the hub, the hub is neither the page nor
\* linked from it, and the pool of the hub has an anchor that passes validation
ServiceScenario(hub) ==
    /\ ret.op = "find_opportunities"
    /\ classify_page(ret.source_url)[1] = "blog"
    /\ KeywordsFound(hub, ret.content_text) # {}
    /\ normalize_url(hub.data.url) # normalize_url(ret.source_url)
    /\ normalize_url(hub.data.url) \notin NormalizedLinks(ret.existing_links)
    /\ HubBestAnchor(hub) # None

\* C12 as claimed: in the service-link scenario find_opportunities emits
\* exactly one opportunity for the hub, with the validated anchor and a score
\* of at least 0.5 plus the configured campaign bonus, also when the content
\* holds the keyword only and not the anchor text.
C12_ExactlyOneForHub ==
    \A h \in 1..Len(ServiceHubs) :
        ServiceScenario(ServiceHubs[h]) =>
            /\ Cardinality(HubOpps(ServiceHubs[h])) = 1
            /\ \A i \in HubOpps(ServiceHubs[h]) :
                   /\ ret.result[i].suggested_anchor = HubBestAnchor(ServiceHubs[h])[1]
                   /\ ret.result[i].confidence_score
                          >= ServiceScoreFloor(ServiceHubs[h].data.url)

\* C12 amended: in the service-link scenario, on a page with a free link slot,
\* (a) every opportunity emitted for the hub has the validated anchor and a
\* score of at least 0.5 plus the configured campaign bonus, at most one per
\* keyword of the hub found in the content; (b) none is emitted when the
\* content does not hold the anchor text; (c) when the content holds the anchor
\* text and that score reaches min_score, one is emitted unless every slot is
\* taken by an opportunity that scores at least as much.
C12_ServiceScenario ==
    \A h \in 1..Len(ServiceHubs) :
        LET hub == ServiceHubs[h]
            slots == Get(Limits, "max_links_per_page", 2) - Len(ret.existing_links)
            floor == ServiceScoreFloor(hub.data.url)
            in_content == Contains(Lower(ret.content_text), Lower(HubBestAnchor(hub)[1]))
        IN  ServiceScenario(hub) /\ slots > 0 =>
                /\ \A i \in HubOpps(hub) :
                       /\ ret.result[i].suggested_anchor = HubBestAnchor(hub)[1]
                       /\ ret.result[i].confidence_score >= floor
                /\ Cardinality(HubOpps(hub)) <= Cardinality(KeywordsFound(hub, ret.content_text))
                /\ ~in_content => HubOpps(hub) = {}
                /\ in_content /\ floor >= MinScore =>
                       \/ HubOpps(hub) # {}
                       \/ /\ Len(ret.result) = slots
                          /\ \A i \in 1..Len(ret.result) :
                                 ret.result[i].confidence_score >= floor

\* C12, its case: a blog page whose content holds a keyword of the hub and
\* the anchor text, under a campaign that names the hub: the hub got an
\* opportunity that scores 0.5 plus the boosted campaign bonus.
C12_Witness ==
    /\ ServiceHubs # <<>>
    /\ ServiceScenario(ServiceHubs[1])
    /\ PrimaryCampaign # <<>>
    /\ \E i \in HubOpps(ServiceHubs[1]) :
           /\ ret.result[i].suggested_anchor = HubBestAnchor(ServiceHubs[1])[1]
           /\ ret.result[i].confidence_score = 800

\* permit_rules.geo_context_terms and the source types allowed to link to permits
GeoContextTerms == Get(PermitRules, "geo_context_terms", <<>>)
AllowedSources == Get(PermitRules, "allowed_sources", <<"blog", "money_page", "project">>)

\* the page that the next pass of the loop of run handles
NextPage == pages_data[page_idx + 1]

\* a page of the crawl that is eligible for a permit decision: not excluded, of
\* an allowed source type, without a link to a permit page
PermitEligible(page) ==
    /\ classify_page(page.url)[1] # "excluded"
    /\ classify_page(page.url)[1] \in Range(AllowedSources)
    /\ \A i \in 1..Len(page.existing_links) :
           classify_page(page.existing_links[i])[1] # "permit_page"

\* the permit pages whose geo-term list holds the term, case-insensitively
PermitPagesListing(term) ==
    {i \in 1..Len(PermitPages) :
        Lower(term) \in {Lower(t) : t \in Range(Get(PermitPages[i], "geo_terms", <<>>))}}

\* the configured geo terms that the content mentions and a permit page lists
GeoTermsWithPage(content_text) ==
    {g \in 1..Len(GeoContextTerms) :
        /\ Contains(Lower(content_text), Lower(GeoContextTerms[g]))
        /\ PermitPagesListing(GeoContextTerms[g]) # {}}

\* C13, one pass of the loop of run: for an eligible page whose content
\* mentions a configured geo term that a permit page lists, the pass adds a
\* decision that is approved, without fallback, and names such a term and the
\* URL of a permit page that lists it.
C13_RunPage ==
    /\ pc = "run"
    /\ page_idx' = page_idx + 1
    /\ PermitEligible(NextPage)
    /\ GeoTermsWithPage(NextPage.content_text) # {}
    => /\ Len(all_permits') = Len(all_permits) + 1
       /\ LET d == all_permits'[Len(all_permits')]
          IN  /\ d.source_url = NextPage.url
              /\ d.permit_decision = "approved"
              /\ ~d.fallback_used
              /\ \E g \in GeoTermsWithPage(NextPage.content_text) :
                     /\ d.geo_context_detected = GeoContextTerms[g]
                     /\ \E i \in PermitPagesListing(GeoContextTerms[g]) :
                            d.permit_target = PermitPages[i].url

\* C13: whenever the content of a permit-eligible page mentions a geo term G
\* that a configured permit page lists, the permit decision of run for the
\* page is approved with geo_context_detected = G, fallback_used = false and
\* the URL of that permit page, whatever other geo terms are configured or
\* mentioned.
C13_GeoTermApproved == [][C13_RunPage]_vars

\* C14, one pass of the loop of run: for an eligible page whose content
\* holds no configured geo term, with hub_priority true, the pass adds a
\* decision for the hub URL that is a hub_fallback with fallback_used true and
\* no geo context.
C14_RunPage ==
    /\ pc = "run"
    /\ page_idx' = page_idx + 1
    /\ PermitEligible(NextPage)
    /\ \A g \in 1..Len(GeoContextTerms) :
           ~Contains(Lower(NextPage.content_text), Lower(GeoContextTerms[g]))
    /\ Get(PermitRules, "hub_priority", TRUE)
    => /\ Len(all_permits') = Len(all_permits) + 1
       /\ LET d == all_permits'[Len(all_permits')]
          IN  /\ d.source_url = NextPage.url
              /\ d.permit_target = Get(PermitRules, "hub_url", DefaultHubUrl)
              /\ d.permit_decision = "hub_fallback"
              /\ d.fallback_used
              /\ d.geo_context_detected = None

\* C14: when the content of a permit-eligible page holds no configured geo
\* term and hub_priority is true, the permit decision of run falls back to the
\* hub URL: hub_fallback, fallback_used true, geo_context_detected empty.
C14_HubFallback == [][C14_RunPage]_vars

\* C14, its case: run has just handled an eligible page that has links but no
\* permit link, under configured geo terms of which the content holds none,
\* and its decision is the fallback to the configured hub URL.
C14_Witness ==
    /\ pc = "run"
    /\ page_idx >= 1
    /\ PermitEligible(pages_data[page_idx])
    /\ pages_data[page_idx].existing_links # <<>>
    /\ GeoContextTerms # <<>>
    /\ "hub_url" \in DOMAIN PermitRules
    /\ \A g \in 1..Len(GeoContextTerms) :
           ~Contains(Lower(pages_data[page_idx].content_text), Lower(GeoContextTerms[g]))
    /\ all_permits # <<>>
    /\ LET d == all_permits[Len(all_permits)]
       IN  /\ d.source_url = pages_data[page_idx].url
           /\ d.permit_target = PermitRules["hub_url"]
           /\ d.permit_decision = "hub_fallback"
           /\ d.fallback_used

(***************************************************************************)
(* Construction from a configuration that lacks a section.  A subscript    *)
(* d['k'] on a mapping without the key raises KeyError; d.get('k', x)      *)
(* does not.                                                               *)
(***************************************************************************)
\* d['k'] raises
MissingKey(d, k) == k \notin DOMAIN d

\* the mapping without one key
Without(d, k) == [x \in DOMAIN d \ {k} |-> d[x]]

\* SiteArchitect.__init__: project_config['site']['url'] raises
SiteUrlRaises == MissingKey(config, "site") \/ MissingKey(config["site"], "url")

\* SiteArchitect._build_url_index: data['url'], hub['url'], permit['url'] or
\* material['url'] raises
BuildUrlIndexRaises ==
    LET kg == Get(config, "knowledge_graph", EmptyDict)
        authority == Get(kg, "authority_hubs", EmptyDict)
        hubs == Get(kg, "service_hubs", <<>>)
        permits == Get(authority, "permit_pages", <<>>)
        materials == Get(kg, "materials", <<>>)
    IN  \/ \E i \in 1..Len(hubs) : MissingKey(hubs[i].data, "url")
        \/ "permit_hub" \in DOMAIN authority /\ MissingKey(authority["permit_hub"], "url")
        \/ \E i \in 1..Len(permits) : MissingKey(permits[i], "url")
        \/ \E i \in 1..Len(materials) : MissingKey(materials[i], "url")

\* a configuration with every section the model reads
FullConfig ==
    [site |-> [url |-> <<Origin>>, name |-> <<"site">>],
     anchor_pools |-> EnginePools,
     anchor_rules |-> EngineAnchorRules,
     knowledge_graph |-> [service_hubs |-> <<HubA, HubB>>, materials |-> <<MaterialT>>,
                          authority_hubs |-> [permit_hub |-> PermitHub,
                                              permit_pages |-> <<PermitPageMB>>]],
     active_campaigns |-> [primary |-> <<"driveways-miami">>, secondary |-> <<"patios">>],
     permit_rules |-> [geo_context_terms |-> <<<<"Miami", "Beach">>>>],
     exclusions |-> [urls |-> <<<<Origin, Slash, "Private">>>>,
                     patterns |-> <<<<Slash, "blog", Slash, "draft", "*">>>>],
     limits |-> [max_links_per_page |-> 3]]

\* the full configuration with one entry of the knowledge graph replaced
WithGraph(k, v) ==
    [FullConfig EXCEPT !.knowledge_graph = (k :> v) @@ FullConfig.knowledge_graph]

\* the full configuration, and the configurations that lack one section, one
\* part of the knowledge graph or one field of an entry of it
PartialConfigs ==
    {FullConfig}
    \cup {Without(FullConfig, k) : k \in DOMAIN FullConfig}
    \cup {[FullConfig EXCEPT !.site = Without(FullConfig.site, "url")]}
    \cup {[FullConfig EXCEPT !.knowledge_graph = Without(FullConfig.knowledge_graph, k)] :
             k \in DOMAIN FullConfig.knowledge_graph}
    \cup {WithGraph("service_hubs", <<[HubA EXCEPT !.data = Without(HubA.data, k)]>>) :
             k \in DOMAIN HubA.data}
    \cup {WithGraph("materials", <<Without(MaterialT, k)>>) : k \in DOMAIN MaterialT}
    \cup {WithGraph("authority_hubs", [permit_pages |-> <<Without(PermitPageMB, k)>>]) :
             k \in DOMAIN PermitPageMB}
    \cup {WithGraph("authority_hubs", [permit_hub |-> Without(PermitHub, k)]) :
             k \in DOMAIN PermitHub}

InitConfig ==
    /\ config \in PartialConfigs
    /\ url_index = EmptyDict
    /\ rotation_memory = <<>>
    /\ recorded = <<>>
    /\ ret = [op |-> "init"]
    /\ pages_data = <<>>
    /\ page_idx = 0
    /\ site_links = EmptyDict
    /\ all_suggestions = <<>>
    /\ all_permits = <<>>
    /\ all_architecture = <<>>
    /\ pc = "new"
    /\ IoInit

\* SEOEngine(config): SiteArchitect, AnchorValidator, AnchorRotator and
\* OpportunityEngine are constructed; an exception leaves no engine
Construct ==
    /\ pc = "new"
    /\ IF SiteUrlRaises \/ BuildUrlIndexRaises
       THEN /\ ret' = [op |-> "construct", raised |-> "KeyError"]
            /\ pc' = "raised"
            /\ UNCHANGED url_index
       ELSE /\ ret' = [op |-> "construct", raised |-> ""]
            /\ pc' = "returned"
            /\ url_index' = build_url_index
    /\ UNCHANGED <<IoVars, config, rotation_memory, recorded, RunLocals>>

NextConfig ==
    Construct \/ ClassifyPage \/ FindOpportunities \/ RunStart \/ RunPage \/ RunReturn
    \/ Resume

SpecConfig == InitConfig /\ [][NextConfig]_vars

\* C15: constructing the engine from a configuration that lacks a section, and
\* then calling classify_page, find_opportunities or run, never raises.
C15_NeverRaises == pc # "raised"

(***************************************************************************)
(* Write-back to WordPress: WPClient, WordPressConnector and the           *)
(* /apply-approved endpoint.  HTML content is a sequence of words and of   *)
(* the tags "<a>" and "</a>"; a response of WordPress is an input.         *)
(***************************************************************************)
MaxHttpLog == 3
MaxLinks == 1

\* cfg.get('api', {})
Api == Get(config, "api", EmptyDict)

\* api.get('mode', 'read_only')
ApiMode == Get(Api, "mode", "read_only")

\* WPClient.__init__: "if not username or not password" is false
HasCredentials == Get(Api, "username", <<>>) # <<>> /\ Get(Api, "app_password", <<>>) # <<>>

\* one call of requests.get / requests.post
Req(client, method, data) == [client |-> client, method |-> method, data |-> data]

\* the guard of WPClient.apply_link
ModeIsReadOnly(mode) == mode = "read_only"

\* the guard of WordPressConnector.update_*_content and of apply_approved
ModeIsNotApplyDraft(mode) == mode # "apply_draft"

\* offset of the first occurrence of p in s (p occurs in s)
FirstMatch(s, p) ==
    CHOOSE i \in 0..(Len(s) - Len(p)) :
        /\ SubSeq(s, i + 1, i + Len(p)) = p
        /\ \A j \in 0..(i - 1) : SubSeq(s, j + 1, j + Len(p)) # p

\* re.search(r'<a[^>]*>[^<]*anchor[^<]*</a>', content, re.IGNORECASE)
AnchorInsideLink(content, anchor) ==
    \E i \in 1..Len(content) : \E j \in (i + 1)..Len(content) :
        /\ content[i] = "<a>"
        /\ content[j] = "</a>"
        /\ \A k \in (i + 1)..(j - 1) : content[k] \notin {"<a>", "</a>"}
        /\ Contains(Lower(SubSeq(content, i + 1, j - 1)), Lower(anchor))

\* WPClient._inject_link: the first occurrence of the anchor becomes a link,
\* unless the anchor is already linked
inject_link(content, anchor) ==
    IF AnchorInsideLink(content, anchor) \/ ~Contains(Lower(content), Lower(anchor))
    THEN content
    ELSE LET i == FirstMatch(Lower(content), Lower(anchor))
         IN  SubSeq(content, 1, i) \o <<"<a>">> \o SubSeq(content, i + 1, i + Len(anchor))
             \o <<"</a>">> \o SubSeq(content, i + Len(anchor) + 1, Len(content))

\* WPClient.apply_link: the requests it issues and its result; env.current is
\* the content the GET answered (<<>>: no answer), env.posted the POST's success
apply_link(mode, anchor_text, env) ==
    IF ModeIsReadOnly(mode) THEN [requests |-> <<>>, result |-> "None"]
    ELSE IF env.current = <<>> \/ env.current[1] = <<>>
    THEN [requests |-> <<Req("WPClient", "GET", <<>>)>>, result |-> "None"]
    ELSE LET content == env.current[1]
             new_content == inject_link(content, anchor_text)
         IN  IF new_content = content
             THEN [requests |-> <<Req("WPClient", "GET", <<>>)>>, result |-> "None"]
             ELSE [requests |-> <<Req("WPClient", "GET", <<>>),
                                  Req("WPClient", "POST", new_content)>>,
                   result |-> IF env.posted THEN "updated" ELSE "None"]

\* WPClient.apply_batch: the requests of its apply_link calls, and its counts
RECURSIVE apply_batch(_, _, _)
apply_batch(mode, payloads, dry_run) ==
    IF payloads = <<>>
    THEN [requests |-> <<>>, success |-> 0, failed |-> 0, skipped |-> 0]
    ELSE LET rest == apply_batch(mode, Tail(payloads), dry_run)
             r == apply_link(mode, Head(payloads).anchor_text, Head(payloads).env)
         IN  IF dry_run THEN [rest EXCEPT !.skipped = @ + 1]
             ELSE IF r.result # "None"
             THEN [rest EXCEPT !.requests = r.requests \o @, !.success = @ + 1]
             ELSE [rest EXCEPT !.requests = r.requests \o @, !.failed = @ + 1]

\* WordPressConnector.update_post_content / update_page_content
update_content(mode, new_content, posted) ==
    IF ModeIsNotApplyDraft(mode) THEN [requests |-> <<>>, result |-> "None"]
    ELSE [requests |-> <<Req("WordPressConnector", "POST", new_content)>>,
          result |-> IF posted THEN "updated" ELSE "None"]

\* server.get_post_id_from_url: posts are asked first, then pages
post_id_requests(found) ==
    IF found = "posts" THEN <<Req("server", "GET", <<>>)>>
    ELSE <<Req("server", "GET", <<>>), Req("server", "GET", <<>>)>>

\* the loop of apply_approved over the approved links
RECURSIVE apply_links(_, _)
apply_links(mode, links) ==
    IF links = <<>> THEN [requests |-> <<>>, success |-> 0, failed |-> 0]
    ELSE LET rest == apply_links(mode, Tail(links))
             link == Head(links)
             r == apply_link(mode, link.anchor_text, link.env)
             ids == post_id_requests(link.env.found)
         IN  IF link.env.found = "none"
             THEN [rest EXCEPT !.requests = ids \o @, !.failed = @ + 1]
             ELSE IF r.result # "None"
             THEN [rest EXCEPT !.requests = ids \o r.requests \o @, !.success = @ + 1]
             ELSE [rest EXCEPT !.requests = ids \o r.requests \o @, !.failed = @ + 1]

\* input: anchors, post contents, answers of WordPress, configurations
WpAnchors == {<<"paver", "patios">>}
WpContents ==
    {<<"our", "Paver", "patios">>, <<"<a>", "paver", "patios", "</a>">>, <<"pool", "deck">>}
LinkEnvs ==
    [current : {<<>>} \cup {<<c>> : c \in WpContents}, posted : BOOLEAN,
     found : {"posts", "pages", "none"}]
WpLinks == [anchor_text : WpAnchors, env : LinkEnvs]
Credentials == [username |-> <<"user">>, app_password |-> <<"secret">>]
ApiOptions ==
    {EmptyDict, Credentials, [mode |-> "apply_draft"]}
    \cup {Credentials @@ [mode |-> m] : m \in {"read_only", "apply_draft", "suggest_only"}}
WpConfigs == {[site |-> [url |-> <<Origin>>], api |-> a] : a \in ApiOptions}
                 \cup {[site |-> [url |-> <<Origin>>]]}

InitWp ==
    /\ config \in WpConfigs
    /\ url_index = build_url_index
    /\ rotation_memory = <<>>
    /\ recorded = <<>>
    /\ ret = [op |-> "init"]
    /\ pages_data = <<>>
    /\ page_idx = 0
    /\ site_links = EmptyDict
    /\ all_suggestions = <<>>
    /\ all_permits = <<>>
    /\ all_architecture = <<>>
    /\ pc = "idle"
    /\ IoInit

\* everything but the request log, the result and the position
WpUnchanged ==
    UNCHANGED <<config, url_index, rotation_memory, recorded, RunLocals, storage, now,
                last_set, usage_counts, rounds>>

\* WPClient(config).apply_link(post_id, content_type, anchor_text, target_url)
WpApplyLink ==
    /\ pc = "idle"
    /\ Len(http_log) < MaxHttpLog
    /\ \E link \in WpLinks :
        IF ~HasCredentials
        THEN /\ ret' = [op |-> "apply_link", link |-> link, raised |-> "ValueError", requests |-> <<>>,
                        result |-> "None"]
             /\ UNCHANGED http_log
        ELSE LET r == apply_link(ApiMode, link.anchor_text, link.env)
             IN  /\ ret' = [op |-> "apply_link", link |-> link, raised |-> "", requests |-> r.requests,
                            result |-> r.result]
                 /\ http_log' = http_log \o r.requests
    /\ pc' = "returned"
    /\ WpUnchanged

\* WPClient(config).apply_batch(payloads, dry_run)
WpApplyBatch ==
    /\ pc = "idle"
    /\ Len(http_log) < MaxHttpLog
    /\ \E payloads \in SeqsUpTo(WpLinks, MaxLinks), dry_run \in BOOLEAN :
        IF ~HasCredentials
        THEN /\ ret' = [op |-> "apply_batch", payloads |-> payloads, dry_run |-> dry_run,
                        raised |-> "ValueError", requests |-> <<>>,
                        result |-> "None"]
             /\ UNCHANGED http_log
        ELSE LET r == apply_batch(ApiMode, payloads, dry_run)
             IN  /\ ret' = [op |-> "apply_batch", payloads |-> payloads, dry_run |-> dry_run,
                        raised |-> "", requests |-> r.requests,
                            result |-> "dict", total |-> Len(payloads),
                            success |-> r.success, failed |-> r.failed,
                            skipped |-> r.skipped]
                 /\ http_log' = http_log \o r.requests
    /\ pc' = "returned"
    /\ WpUnchanged

\* WordPressConnector(site_url, username, app_password, mode) with the
\* configured mode, then update_post_content(post_id, new_content)
UpdatePostContent ==
    /\ pc = "idle"
    /\ Len(http_log) < MaxHttpLog
    /\ \E new_content \in WpContents, posted \in BOOLEAN :
        LET r == update_content(ApiMode, new_content, posted)
        IN  /\ ret' = [op |-> "update_post_content", raised |-> "",
                       new_content |-> new_content, posted |-> posted,
                       requests |-> r.requests, result |-> r.result]
            /\ http_log' = http_log \o r.requests
    /\ pc' = "returned"
    /\ WpUnchanged

\* the same, then update_page_content(page_id, new_content)
UpdatePageContent ==
    /\ pc = "idle"
    /\ Len(http_log) < MaxHttpLog
    /\ \E new_content \in WpContents, posted \in BOOLEAN :
        LET r == update_content(ApiMode, new_content, posted)
        IN  /\ ret' = [op |-> "update_page_content", raised |-> "",
                       new_content |-> new_content, posted |-> posted,
                       requests |-> r.requests, result |-> r.result]
            /\ http_log' = http_log \o r.requests
    /\ pc' = "returned"
    /\ WpUnchanged

\* POST /apply-approved: 403 unless the mode is apply_draft, 500 when the
\* client cannot be made or the connection test fails, else the counts
ApplyApproved ==
    /\ pc = "idle"
    /\ Len(http_log) < MaxHttpLog
    /\ \E links \in SeqsUpTo(WpLinks, MaxLinks), connected \in BOOLEAN :
        IF ModeIsNotApplyDraft(ApiMode)
        THEN /\ ret' = [op |-> "apply_approved", links |-> links, connected |-> connected,
                        status |-> 403, requests |-> <<>>]
             /\ UNCHANGED http_log
        ELSE IF ~HasCredentials
        THEN /\ ret' = [op |-> "apply_approved", links |-> links, connected |-> connected,
                        status |-> 500, requests |-> <<>>]
             /\ UNCHANGED http_log
        ELSE IF ~connected
        THEN /\ ret' = [op |-> "apply_approved", links |-> links, connected |-> connected,
                        status |-> 500,
                        requests |-> <<Req("WPClient", "GET", <<>>)>>]
             /\ http_log' = Append(http_log, Req("WPClient", "GET", <<>>))
        ELSE LET r == apply_links(ApiMode, links)
                 requests == <<Req("WPClient", "GET", <<>>)>> \o r.requests
             IN  /\ ret' = [op |-> "apply_approved", links |-> links, connected |-> connected,
                        status |-> 200,
                            requests |-> requests, total |-> Len(links),
                            success |-> r.success, failed |-> r.failed]
                 /\ http_log' = http_log \o requests
    /\ pc' = "returned"
    /\ WpUnchanged

NextWp ==
    WpApplyLink \/ WpApplyBatch \/ UpdatePostContent \/ UpdatePageContent
    \/ ApplyApproved \/ Resume

SpecWp == InitWp /\ [][NextWp]_vars

\* C16: no update (POST) request is ever sent to WordPress unless the
\* configured api.mode is 'apply_draft'.
C16_NoPostUnlessApplyDraft ==
    ApiMode # "apply_draft" => \A i \in 1..Len(http_log) : http_log[i].method # "POST"

(***************************************************************************)
(* SimpleCache.  Time is in whole seconds; an omitted ttl (None) is <<>>   *)
(* and a given ttl n is <<n>>.                                             *)
(***************************************************************************)
MaxTime == 4
MaxTtl == 2

CacheKeys == {"k1", "k2"}
CacheData == {"v1", "v2"}
TtlOptions == {<<>>} \cup {<<n>> : n \in (-1)..MaxTtl}

\* SimpleCache.default_ttl
default_ttl == config["default_ttl"]

\* the ttl set() asked for: ttl, or default_ttl when ttl is omitted
RequestedTtl(ttl) == IF ttl = <<>> THEN default_ttl ELSE ttl[1]

\* SimpleCache.set: "ttl or self.default_ttl", where 0 is as false as None
EffectiveTtl(ttl) == IF ttl = <<>> \/ ttl[1] = 0 THEN default_ttl ELSE ttl[1]

\* SimpleCache.set: the storage afterwards
cache_set(key, data, ttl) ==
    DictPut(storage, key,
            [data |-> data, expires_at |-> now + EffectiveTtl(ttl), created_at |-> now])

\* SimpleCache.get: time.time() > entry['expires_at']
Expired(entry) == now > entry.expires_at

\* SimpleCache.get: <<result, storage afterwards>>; a miss is "None"
cache_get(key) ==
    IF key \notin DOMAIN storage THEN <<"None", storage>>
    ELSE IF Expired(storage[key]) THEN <<"None", Without(storage, key)>>
    ELSE <<storage[key].data, storage>>

InitCache ==
    /\ config \in {[default_ttl |-> n] : n \in 1..MaxTtl}
    /\ url_index = EmptyDict
    /\ rotation_memory = <<>>
    /\ recorded = <<>>
    /\ ret = [op |-> "init"]
    /\ pages_data = <<>>
    /\ page_idx = 0
    /\ site_links = EmptyDict
    /\ all_suggestions = <<>>
    /\ all_permits = <<>>
    /\ all_architecture = <<>>
    /\ pc = "idle"
    /\ IoInit

\* everything but the cache, the clock, the result and the position
CacheUnchanged ==
    UNCHANGED <<config, url_index, rotation_memory, recorded, RunLocals, http_log,
                usage_counts, rounds>>

\* a second passes
Tick ==
    /\ pc = "idle"
    /\ now < MaxTime
    /\ now' = now + 1
    /\ UNCHANGED <<storage, last_set, ret, pc>>
    /\ CacheUnchanged

\* memory_cache.set(key, data, ttl)
CacheSet ==
    /\ pc = "idle"
    /\ \E key \in CacheKeys, data \in CacheData, ttl \in TtlOptions :
        /\ storage' = cache_set(key, data, ttl)
        /\ last_set' = DictPut(last_set, key, [at |-> now, ttl |-> ttl, data |-> data])
        /\ ret' = [op |-> "set", key |-> key, data |-> data, ttl |-> ttl, result |-> "None"]
    /\ pc' = "returned"
    /\ UNCHANGED now
    /\ CacheUnchanged

\* memory_cache.get(key)
CacheGet ==
    /\ pc = "idle"
    /\ \E key \in CacheKeys :
        /\ storage' = cache_get(key)[2]
        /\ ret' = [op |-> "get", key |-> key, result |-> cache_get(key)[1]]
    /\ pc' = "returned"
    /\ UNCHANGED <<now, last_set>>
    /\ CacheUnchanged

\* memory_cache.invalidate(key)
CacheInvalidate ==
    /\ pc = "idle"
    /\ \E key \in CacheKeys :
        /\ storage' = Without(storage, key)
        /\ last_set' = Without(last_set, key)
        /\ ret' = [op |-> "invalidate", key |-> key, result |-> key \in DOMAIN storage]
    /\ pc' = "returned"
    /\ UNCHANGED now
    /\ CacheUnchanged

\* memory_cache.clear()
CacheClear ==
    /\ pc = "idle"
    /\ storage' = EmptyDict
    /\ last_set' = EmptyDict
    /\ ret' = [op |-> "clear", result |-> Cardinality(DOMAIN storage)]
    /\ pc' = "returned"
    /\ UNCHANGED now
    /\ CacheUnchanged

NextCache == Tick \/ CacheSet \/ CacheGet \/ CacheInvalidate \/ CacheClear \/ Resume

SpecCache == InitCache /\ [][NextCache]_vars

\* C17: SimpleCache never serves stale data: get(key) returns a value only
\* when it is the data of the latest set of the key, no invalidate or clear
\* followed that set, and at most ttl seconds (default_ttl when the ttl was
\* omitted) have passed since it; once more time has passed, get(key) returns
\* None and the entry is gone from the storage.
C17_NeverStale ==
    (pc = "returned" /\ ret.op = "get") =>
        LET key == ret.key
        IN  /\ ret.result # "None" =>
                /\ key \in DOMAIN last_set
                /\ ret.result = last_set[key].data
                /\ now - last_set[key].at <= RequestedTtl(last_set[key].ttl)
            /\ (key \in DOMAIN last_set
                /\ now - last_set[key].at > RequestedTtl(last_set[key].ttl)) =>
                    ret.result = "None" /\ key \notin DOMAIN storage

\* C18: find_opportunities emits at most one opportunity per service hub for a
\* source page, however many of the hub's keywords occur in the content.
C18_AtMostOnePerHub ==
    (pc = "returned" /\ ret.op = "find_opportunities") =>
        \A i \in 1..Len(ServiceHubs) : Cardinality(HubOpps(ServiceHubs[i])) <= 1

\* C19: every anchor find_opportunities accepts from get_best_anchor for an
\* emitted service opportunity is recorded with record_anchor_use, so (with a
\* rotation memory of at least one entry) it is in the rotation memory when
\* find_opportunities has returned.
C19_AcceptedAnchorRecorded ==
    (pc = "returned" /\ ret.op = "find_opportunities" /\ MemorySize > 0) =>
        \A i \in 1..Len(ret.result) :
            ret.result[i].target_type = "service" =>
                Strip(Lower(ret.result[i].suggested_anchor)) \in Range(rotation_memory)

\* the pages of a crawl result that get an architecture entry
HasEntry(pages, j) == classify_page(pages[j].url)[1] # "excluded"

\* the place of the architecture entry of page j
EntryIdx(pages, j) == Cardinality({i \in 1..j : HasEntry(pages, i)})

\* the links of page q whose normalized URL is that of page j
LinksTo(pages, q, j) ==
    Cardinality({i \in 1..Len(pages[q].existing_links) :
                    normalize_url(pages[q].existing_links[i]) = normalize_url(pages[j].url)})

\* the links to page j on the pages 1..n other than j
RECURSIVE InboundFromOthers(_, _, _)
InboundFromOthers(pages, n, j) ==
    IF n = 0 THEN 0
    ELSE (IF n = j THEN 0 ELSE LinksTo(pages, n, j)) + InboundFromOthers(pages, n - 1, j)

\* C20: the inbound_links of each architecture entry run produces is the number
\* of links, on every other page of the crawl, whose normalized URL is that of
\* the entry's page, whatever the order of the pages.
C20_InboundFromEveryOtherPage ==
    (pc = "returned" /\ ret.op = "run") =>
        \A j \in 1..Len(ret.pages_data) :
            HasEntry(ret.pages_data, j) =>
                ret.result.architecture[EntryIdx(ret.pages_data, j)].inbound_links
                    = InboundFromOthers(ret.pages_data, Len(ret.pages_data), j)

\* the rules of classify_page for a URL outside the index, in their order:
\* <<the rule matches, the type it gives>>
ClassifyRules(normalized) ==
    <<<<is_excluded(normalized), "excluded">>,
      <<Contains(normalized, <<Slash, "blog", Slash>>)
        \/ Contains(normalized, <<Slash, "guide", Slash>>), "blog">>,
      <<ContainsSlashText(normalized, ProjectText)
        \/ Contains(normalized, <<Slash, "portfolio", Slash>>), "project">>,
      <<ContainsSlashText(normalized, ContactText)
        \/ ContainsSlashText(normalized, AboutText), "utility">>,
      <<TRUE, "unknown">>>>

\* the type of the first rule that matches
FirstRuleType(normalized) ==
    LET rules == ClassifyRules(normalized)
        first == CHOOSE i \in 1..Len(rules) :
                     rules[i][1] /\ \A j \in 1..(i - 1) : ~rules[j][1]
    IN  rules[first][2]

\* the rules that match a URL
RulesMatching(normalized) ==
    {i \in 1..4 : ClassifyRules(normalized)[i][1]}

\* C21: classify_page applies its rules in a fixed order and the first match
\* wins: an index hit returns the stored type, subtype and metadata; else
\* exclusion, blog, project, utility, unknown in this order; the URL index is
\* the one built at construction.
C21_FirstMatchWins ==
    (pc = "returned" /\ ret.op = "classify_page") =>
        LET normalized == normalize_url(ret.url)
        IN  /\ url_index = build_url_index
            /\ normalized \in DOMAIN url_index =>
                   ret.result = <<url_index[normalized].type,
                                  url_index[normalized].subtype, url_index[normalized]>>
            /\ normalized \notin DOMAIN url_index =>
                   /\ ret.result = <<FirstRuleType(normalized), None, EmptyDict>>
                   /\ ret.result[1] \in {"excluded", "blog", "project", "utility", "unknown"}

\* classify_page returned for a URL outside the index that two rules match
C21_Witness ==
    /\ pc = "returned"
    /\ ret.op = "classify_page"
    /\ normalize_url(ret.url) \notin DOMAIN url_index
    /\ Cardinality(RulesMatching(normalize_url(ret.url))) >= 2
    /\ ret.result[1] = "excluded"

\* find_opportunities: the scored candidates of the call that returned, before
\* the filter, the sort and the truncation
Candidates ==
    Scored(find_service_opportunities(ret.source_url, <<"title">>, ret.content_text,
                                      ret.existing_links)
           \o find_permit_opportunities(ret.source_url, <<"title">>, ret.content_text,
                                        ret.existing_links,
                                        classify_page(ret.source_url)[1]),
           ret.source_url)

\* find_opportunities: slots_available of the call that returned
SlotsAvailable == Get(Limits, "max_links_per_page", 2) - Len(ret.existing_links)

\* the places of a list of opportunities with a score of at least t
AtLeast(opps, t) == {i \in 1..Len(opps) : opps[i].confidence_score >= t}

\* the places of a list that hold a given opportunity
PlacesOf(opps, opp) == {i \in 1..Len(opps) : opps[i] = opp}

\* the call searched the page: the source is not excluded and has a free slot
Searched ==
    /\ classify_page(ret.source_url)[1] # "excluded"
    /\ SlotsAvailable > 0

\* C22: the list find_opportunities returns for a page it searches is the
\* scored candidates with a score of at least min_score, in descending order
\* of score, cut to the first slots_available: it holds only such candidates,
\* as many as fit, and the highest-scored ones; for every page its length is
\* within the free slots and no score is under min_score.
C22_FilterSortTruncate ==
    (pc = "returned" /\ ret.op = "find_opportunities") =>
        LET result == ret.result
            qualified == AtLeast(Candidates, MinScore)
        IN  /\ \A i \in 1..Len(result) : result[i].confidence_score >= MinScore
            /\ Len(result) <= (IF SlotsAvailable > 0 THEN SlotsAvailable ELSE 0)
            /\ \A i \in 1..Len(result) : \A j \in i..Len(result) :
                   result[i].confidence_score >= result[j].confidence_score
            /\ Searched =>
                /\ Len(result) = (IF Cardinality(qualified) < SlotsAvailable
                                  THEN Cardinality(qualified) ELSE SlotsAvailable)
                /\ \A i \in 1..Len(result) :
                       Cardinality(PlacesOf(result, result[i]))
                           <= Cardinality(PlacesOf(Candidates, result[i]))
                /\ \A i \in qualified :
                       LET t == Candidates[i].confidence_score
                           above == Cardinality(AtLeast(Candidates, t))
                       IN  Cardinality(AtLeast(result, t))
                               = (IF above < Len(result) THEN above ELSE Len(result))

\* find_opportunities returned a list that was sorted and cut: a qualified
\* candidate came before one with a higher score, and the qualified
\* candidates did not all fit the free slots
C22_Witness ==
    /\ pc = "returned"
    /\ ret.op = "find_opportunities"
    /\ Searched
    /\ ret.result # <<>>
    /\ Cardinality(AtLeast(Candidates, MinScore)) > SlotsAvailable
    /\ \E i \in AtLeast(Candidates, MinScore) : \E j \in (i + 1)..Len(Candidates) :
           Candidates[i].confidence_score < Candidates[j].confidence_score

\* the campaign bonus of a target URL: weight x boost_multiplier when the URL
\* contains the primary campaign string, else weight when it contains the
\* secondary one, else 0
CampaignBonus(target_url) ==
    LET weight == Get(Weights, "campaign_alignment", 200)
    IN  IF Contains(Lower(target_url), Lower(PrimaryCampaign))
        THEN (weight * BoostMultiplier) \div 1000
        ELSE IF Contains(Lower(target_url), Lower(SecondaryCampaign)) THEN weight
        ELSE 0

\* 0.1 for a permit-hub target, 0.15 for a permit-city target
PermitBonus(target_type) ==
    IF target_type = "permit_hub" THEN 100
    ELSE IF target_type = "permit_city" THEN 150
    ELSE 0

\* both campaign strings are configured
CampaignsConfigured == PrimaryCampaign # <<>> /\ SecondaryCampaign # <<>>

PermitOpps == {i \in 1..Len(ret.result) : ret.result[i].target_type \in {"permit_hub", "permit_city"}}

\* the type of the source page of the call that returned
SourceType == classify_page(ret.source_url)[1]

\* the source type is allowed and the page has fewer permit links than
\* limits.max_permit_links_per_page
PermitSourceAllowed ==
    /\ SourceType \in Range(Get(PermitRules, "allowed_sources",
                                <<"blog", "money_page", "project">>))
    /\ Cardinality({i \in 1..Len(ret.existing_links) :
                       classify_page(ret.existing_links[i])[1] = "permit_page"})
           < Get(Limits, "max_permit_links_per_page", 1)

\* C24 as stated: find_opportunities emits a permit opportunity only if the
\* source type is in the allowlist, the source is not itself a permit_page and
\* the page has fewer permit links than the maximum; at most one per page.
C24_PermitOnlyFromNonPermit ==
    (pc = "returned" /\ ret.op = "find_opportunities") =>
        /\ Cardinality(PermitOpps) <= 1
        /\ PermitOpps # {} => PermitSourceAllowed /\ SourceType # "permit_page"

\* C24 amended: the same, the source not being a permit_page unless
\* permit_rules.no_permit_to_permit is set to false.
C24_PermitOnlyWhenAllowed ==
    (pc = "returned" /\ ret.op = "find_opportunities") =>
        /\ Cardinality(PermitOpps) <= 1
        /\ PermitOpps # {} =>
               /\ PermitSourceAllowed
               /\ Get(PermitRules, "no_permit_to_permit", TRUE) => SourceType # "permit_page"

\* find_opportunities returned a permit opportunity for a page that already
\* links to a permit page, under a maximum of two permit links
C24_Witness ==
    /\ pc = "returned"
    /\ ret.op = "find_opportunities"
    /\ PermitOpps # {}
    /\ \E i \in 1..Len(ret.existing_links) :
           classify_page(ret.existing_links[i])[1] = "permit_page"

\* some configured geo term occurs in the content and names a permit page
GeoMatch(content_text) ==
    LET geo_terms == Get(PermitRules, "geo_context_terms", <<>>)
    IN  \E i \in 1..Len(geo_terms) :
            /\ Contains(Lower(content_text), Lower(geo_terms[i]))
            /\ FirstPermitPageFor(geo_terms[i], PermitPages) # None

\* C25: when geo context is required and hub_priority is false, a page without
\* a geo match gets no permit opportunity from find_opportunities and no
\* permit decision from run; the hub is a fallback only under hub_priority.
C25_NoFallbackWithoutHubPriority ==
    (/\ Get(PermitRules, "permit_link_requires_geo_context", TRUE)
     /\ ~Get(PermitRules, "hub_priority", TRUE)) =>
        /\ (pc = "returned" /\ ret.op = "find_opportunities" /\ ~GeoMatch(ret.content_text)) =>
               \A i \in 1..Len(ret.result) :
                   ret.result[i].target_type \notin {"permit_hub", "permit_city"}
        /\ \A i \in 1..Len(all_permits) : ~all_permits[i].fallback_used

\* the part of C25 about find_opportunities alone
C25_OpportunityPart ==
    (/\ Get(PermitRules, "permit_link_requires_geo_context", TRUE)
     /\ ~Get(PermitRules, "hub_priority", TRUE)
     /\ pc = "returned" /\ ret.op = "find_opportunities" /\ ~GeoMatch(ret.content_text)) =>
        \A i \in 1..Len(ret.result) :
            ret.result[i].target_type \notin {"permit_hub", "permit_city"}

(***************************************************************************)
(* AnchorRotator on its own: a rotator built from anchor pools, and calls  *)
(* of its two methods in any order.                                        *)
(***************************************************************************)
MaxUsage == 2          \* largest usage count a call of record_usage starts from
MaxRounds == 4         \* rounds of get_next_anchor and record_usage on one category

AnchorA == <<"paver", "driveways">>
AnchorB == <<"driveway", "installation">>
AnchorC == <<"concrete", "driveways">>
AnchorP == <<"patio", "installation">>

\* the anchor_pools a rotator is built from: two pools, an empty pool, a pool
\* that names an anchor twice, and no pool at all
RotatorPools ==
    {[driveways |-> <<AnchorA, AnchorB, AnchorC>>, patios |-> <<AnchorP>>],
     [driveways |-> <<AnchorA, AnchorB>>, patios |-> <<>>],
     [driveways |-> <<AnchorB, AnchorB, AnchorA>>],
     EmptyDict}

RotatorCategories == {"driveways", "patios", "pools"}
RotatorAnchors == {AnchorA, AnchorB, AnchorC, AnchorP, <<"walkways">>}

InitRotator ==
    /\ config \in {[anchor_pools |-> p] : p \in RotatorPools}
    /\ url_index = EmptyDict
    /\ rotation_memory = <<>>
    /\ recorded = <<>>
    /\ ret = [op |-> "init"]
    /\ pages_data = <<>>
    /\ page_idx = 0
    /\ site_links = EmptyDict
    /\ all_suggestions = <<>>
    /\ all_permits = <<>>
    /\ all_architecture = <<>>
    /\ pc = "idle"
    /\ IoInit

\* everything but the rotator and the call in progress
RotatorUnchanged ==
    UNCHANGED <<config, url_index, rotation_memory, recorded, RunLocals, http_log,
                storage, now, last_set>>

\* rotator.get_next_anchor(category)
GetNextAnchor ==
    /\ pc = "idle"
    /\ \E category \in RotatorCategories :
           LET r == get_next_anchor(usage_counts, category)
           IN  /\ ret' = [op |-> "get_next_anchor", category |-> category,
                          raised |-> r.raised, result |-> r.result]
               /\ pc' = IF r.raised = "" THEN "returned" ELSE "raised"
    /\ UNCHANGED <<usage_counts, rounds>>
    /\ RotatorUnchanged

\* the count of anchor in category, 0 when there is none
CountOf(counts, category, anchor) ==
    IF /\ category \in DOMAIN counts
       /\ \E i \in 1..Len(counts[category]) : counts[category][i].anchor = anchor
    THEN counts[category][CHOOSE i \in 1..Len(counts[category]) :
                              counts[category][i].anchor = anchor].count
    ELSE 0

\* rotator.record_usage(category, anchor)
RecordUsage ==
    /\ pc = "idle"
    /\ \E category \in RotatorCategories, anchor \in RotatorAnchors :
           /\ CountOf(usage_counts, category, anchor) < MaxUsage
           /\ usage_counts' = record_usage(usage_counts, category, anchor)
           /\ ret' = [op |-> "record_usage", category |-> category, anchor |-> anchor,
                      before |-> usage_counts]
    /\ pc' = "returned"
    /\ UNCHANGED rounds
    /\ RotatorUnchanged

\* the caller handles the exception; the rotator is as it was
CatchError ==
    /\ pc = "raised"
    /\ pc' = "idle"
    /\ ret' = [op |-> "init"]
    /\ UNCHANGED <<usage_counts, rounds>>
    /\ RotatorUnchanged

NextRotator == GetNextAnchor \/ RecordUsage \/ Resume \/ CatchError

SpecRotator == InitRotator /\ [][NextRotator]_vars

(***************************************************************************)
(* The rotation protocol: a := get_next_anchor(c), then record_usage(c, a),*)
(* round after round.                                                      *)
(***************************************************************************)
\* the first half of a round: a := rotator.get_next_anchor(c)
RoundGet ==
    /\ pc = "idle"
    /\ \E category \in RotatorCategories :
           /\ Get(rounds, category, 0) < MaxRounds
           /\ LET r == get_next_anchor(usage_counts, category)
              IN  /\ ret' = [op |-> "get_next_anchor", category |-> category,
                             raised |-> r.raised, result |-> r.result]
                  /\ pc' = IF r.raised = "" THEN "chosen" ELSE "raised"
    /\ UNCHANGED <<usage_counts, rounds>>
    /\ RotatorUnchanged

\* the second half: rotator.record_usage(c, a)
RoundRecord ==
    /\ pc = "chosen"
    /\ LET anchor == IF ret.result = None THEN None ELSE ret.result[1]
       IN  /\ usage_counts' = record_usage(usage_counts, ret.category, anchor)
           /\ ret' = [op |-> "record_usage", category |-> ret.category, anchor |-> anchor,
                      before |-> usage_counts]
    /\ rounds' = IF ret.category \in DOMAIN rounds
                 THEN [rounds EXCEPT ![ret.category] = @ + 1]
                 ELSE rounds
    /\ pc' = "returned"
    /\ RotatorUnchanged

NextRotation == RoundGet \/ RoundRecord \/ Resume \/ CatchError

SpecRotation == InitRotator /\ [][NextRotation]_vars

\* the place of the first occurrence of anchor in pool, 0 when there is none
FirstPlace(pool, anchor) ==
    IF \E i \in 1..Len(pool) : pool[i] = anchor
    THEN CHOOSE i \in 1..Len(pool) : pool[i] = anchor /\ \A j \in 1..(i - 1) : pool[j] # anchor
    ELSE 0

\* the anchor returned is in the pool, no anchor of the pool has a smaller
\* count, and none with the same count is declared before it
MinimalFirstDeclared(category, anchor) ==
    LET pool == AnchorPools[category]
    IN  /\ FirstPlace(pool, anchor) > 0
        /\ \A i \in 1..Len(pool) :
               /\ CountOf(usage_counts, category, pool[i])
                      >= CountOf(usage_counts, category, anchor)
               /\ CountOf(usage_counts, category, pool[i])
                      = CountOf(usage_counts, category, anchor)
                  => FirstPlace(pool, anchor) <= i

\* C26: for every category configured in anchor_pools, with any pool, an
\* empty one included, get_next_anchor returns without raising an anchor of
\* minimal usage count, the first declared among ties; for a category that is
\* not configured it returns None.
C26_NextAnchorNeverRaises ==
    (pc \in {"returned", "raised"} /\ ret.op = "get_next_anchor") =>
        /\ ret.raised = ""
        /\ IF ret.category \in DOMAIN AnchorPools
           THEN ret.result # None /\ MinimalFirstDeclared(ret.category, ret.result[1])
           ELSE ret.result = None

\* the same for the categories whose pool is not empty, and for the unknown ones
C26_NonEmptyPools ==
    (/\ pc \in {"returned", "raised"} /\ ret.op = "get_next_anchor"
     /\ Get(AnchorPools, ret.category, <<>>) # <<>>) =>
        /\ ret.raised = ""
        /\ ret.result # None /\ MinimalFirstDeclared(ret.category, ret.result[1])

C26_UnknownCategory ==
    (/\ pc \in {"returned", "raised"} /\ ret.op = "get_next_anchor"
     /\ ret.category \notin DOMAIN AnchorPools) =>
        ret.raised = "" /\ ret.result = None

\* C27: record_usage(category, anchor) adds one to the count of that pair and
\* leaves every other count as it was; when the category or the anchor is
\* unknown, nothing changes; it never raises.
C27_RecordUsageFrame ==
    (pc = "returned" /\ ret.op = "record_usage") =>
        /\ DOMAIN usage_counts = DOMAIN ret.before
        /\ \A category \in DOMAIN usage_counts :
               /\ Len(usage_counts[category]) = Len(ret.before[category])
               /\ \A i \in 1..Len(usage_counts[category]) :
                      /\ usage_counts[category][i].anchor = ret.before[category][i].anchor
                      /\ usage_counts[category][i].count =
                             ret.before[category][i].count
                             + (IF /\ category = ret.category
                                   /\ usage_counts[category][i].anchor = ret.anchor
                                THEN 1 ELSE 0)

\* record_usage returned after counting a use of an anchor whose category
\* holds other anchors
C27_Witness ==
    /\ pc = "returned"
    /\ ret.op = "record_usage"
    /\ ret.category \in DOMAIN usage_counts
    /\ Len(usage_counts[ret.category]) >= 2
    /\ CountOf(usage_counts, ret.category, ret.anchor)
           = CountOf(ret.before, ret.category, ret.anchor) + 1

\* the categories whose pool is not empty and names no anchor twice
DistinctPools ==
    {category \in DOMAIN AnchorPools :
        /\ AnchorPools[category] # <<>>
        /\ \A i, j \in 1..Len(AnchorPools[category]) :
               AnchorPools[category][i] = AnchorPools[category][j] => i = j}

RECURSIVE SumCounts(_)
SumCounts(entries) ==
    IF entries = <<>> THEN 0 ELSE Head(entries).count + SumCounts(Tail(entries))

\* the counts of a category differ by at most one and add up to the rounds played
Balanced ==
    \A category \in DistinctPools :
        /\ \A i, j \in 1..Len(usage_counts[category]) :
               usage_counts[category][i].count <= usage_counts[category][j].count + 1
        /\ SumCounts(usage_counts[category]) = rounds[category]

\* no count of the category is smaller after the step
NoDecrease ==
    \A category \in DistinctPools :
        \A i \in 1..Len(usage_counts[category]) :
            usage_counts'[category][i].count >= usage_counts[category][i].count

\* C30: under the protocol a := get_next_anchor(c); record_usage(c, a), on a
\* category with a non-empty pool of distinct anchors, the usage counts never
\* differ by more than 1, no count ever decreases, and the counts add up to
\* the number of rounds played.
C30_RotationBalanced == [](Balanced) /\ [][NoDecrease]_vars

\* more rounds were played on a category than its pool has anchors, and the
\* pool has several
C30_Witness ==
    \E category \in DistinctPools :
        /\ Len(AnchorPools[category]) >= 2
        /\ rounds[category] > Len(AnchorPools[category])

\* the architecture entries of the run in progress or of the run that returned
ArchitectureEntries ==
    IF pc = "returned" /\ ret.op = "run" THEN ret.result.architecture ELSE all_architecture

\* C28: each architecture entry of run has hub_score High for a money page or
\* hub with at least 5 outbound links, Medium for one with 2 to 4, Low
\* otherwise; and status NEEDS_LINKS for a money page with fewer than 2
\* outbound links, OVER_LINKED above 5 outbound links, else OK.
C28_HubScoreAndStatus ==
    \A i \in 1..Len(ArchitectureEntries) :
        LET entry == ArchitectureEntries[i]
            gated == entry.page_type \in {"money_page", "hub"}
        IN  /\ entry.hub_score =
                   (IF gated /\ entry.outbound_links >= 5 THEN "High"
                    ELSE IF gated /\ entry.outbound_links >= 2 /\ entry.outbound_links < 5
                    THEN "Medium"
                    ELSE "Low")
            /\ entry.status =
                   (IF entry.page_type = "money_page" /\ entry.outbound_links < 2
                    THEN "NEEDS_LINKS"
                    ELSE IF entry.outbound_links > 5 THEN "OVER_LINKED"
                    ELSE "OK")

\* run returned a report with a High and over-linked money page and a Medium hub
C28_Witness ==
    /\ pc = "returned"
    /\ ret.op = "run"
    /\ \E i, j \in 1..Len(ret.result.architecture) :
           /\ ret.result.architecture[i].hub_score = "High"
           /\ ret.result.architecture[i].status = "OVER_LINKED"
           /\ ret.result.architecture[j].hub_score = "Medium"
           /\ ret.result.architecture[j].status = "OK"

\* active_campaigns is absent, or its primary and secondary strings are empty
NoCampaign == PrimaryCampaign = <<>> /\ SecondaryCampaign = <<>>

\* C29: when no campaign is configured, no opportunity gets a campaign bonus:
\* a service opportunity of find_opportunities scores the base 0.5 and a
\* suggestion of run the base 0.70.
C29_NoCampaignNoBonus ==
    NoCampaign =>
        /\ (pc = "returned" /\ ret.op = "find_opportunities") =>
               \A i \in 1..Len(ret.result) :
                   ret.result[i].target_type = "service" =>
                       ret.result[i].confidence_score = 500
        /\ \A suggestion \in RunSuggestions : suggestion.confidence_score = 700

====
